---- MODULE Spec2Model ----
(***************************************************************************)
(* Lifecycle orchestration of embedded-clickhouse: the single instance     *)
(* (EmbeddedClickHouse.Start / Stop), the process supervisor (startProcess *)
(* / stopProcess) and the cluster orchestrator (Cluster.Start / Stop).     *)
(*                                                                         *)
(* Handlers are translated statement by statement; a handler that blocks   *)
(* or calls the operating system is split at those points, and `pc' holds  *)
(* the position of the one caller.  The operating system (child processes, *)
(* the file system, timers) is the environment: each of its answers is a   *)
(* nondeterministic choice.                                                *)
(***************************************************************************)
EXTENDS Integers, Sequences, FiniteSets, TLC

\* Bound: lifecycle calls (Start or Stop) made on the instance, or on the
\* cluster, in one behaviour.
MaxCalls == 4

\* Bound: the largest replica count a cluster is built with.
MaxReplicas == 2

\* Bound: polls one readiness prober makes in one behaviour.
MaxPolls == 3

\* Bound: goroutines that call accessors of one instance concurrently.
MaxReaders == 2

\* Bound: ensureBinary calls that run concurrently.
MaxWorkers == 2

\* Bound: writes io.Copy makes to write the whole binary.
MaxChunks == 2

\* Bound: ensureBinary calls a caller makes in a row for one cache key.
MaxAttempts == 2

\* Bound: builder calls a program chains on its Config values.
MaxChain == 3

\* Bound: tokens of a version string.
MaxTokens == 5

\* Bound: lines of a checksum file.
MaxLines == 2

\* Bound: goroutines that make lifecycle calls on one instance.
MaxCallers == 2

VARIABLES
    procs,      \* OS: pid -> child process state
    dirs,       \* OS: the temp directories that exist (ids of os.MkdirTemp results)
    dataDir,    \* OS: whether the configured persistent data path exists
    e,          \* the EmbeddedClickHouse struct
    sp,         \* the frame of the running stopProcess call
    pc,         \* position of the caller inside Start / Stop
    call,       \* the lifecycle call being executed, or the last one made
    ncalls,     \* number of lifecycle calls made so far
    result,     \* error returned by the last completed call (<<>> is nil)
    loc,        \* locals of Start / Stop
    trace,      \* OS-visible events of the current call, in order
    c,          \* the Cluster struct
    heap,       \* the node objects each Cluster.Start call allocated
    held,       \* the node slice the caller got from Nodes() (0: none)
    got,        \* what the caller's last Node(i) or Nodes() call came back with
    pr,         \* the frame of the running readiness prober, and its endpoint
    rw,         \* one instance, its RWMutex, and the goroutines that use it
    bc,         \* the binary cache on disk and the ensureBinary calls on it
    aq,         \* one ensureBinary call, the files it touches and what it did
    cf,         \* the Config values a program holds and the calls it made on them
    rn,         \* the inputs of a configuration rendering and the files written
    ut,         \* a call of one of the helper functions: its input and results
    lc,         \* one instance and the goroutines that call Start and Stop on it
    dl          \* the locks of a cluster, its nodes and the download, and their users

clVars == <<c, heap, held, got>>

\* The state of the parts that run apart from the lifecycle calls.
auxVars == <<pr, rw, bc, aq, cf, rn, ut, lc, dl>>

\* The state of the lifecycle calls and of the OS under them.
lifeVars == <<procs, dirs, dataDir, e, sp, pc, call, ncalls, result, loc, trace,
              c, heap, held, got>>

vars == <<lifeVars, auxVars>>

\* What the steps of one part leave unchanged: everything but its variable.
notPr == <<lifeVars, rw, bc, aq, cf, rn, ut, lc, dl>>

notRw == <<lifeVars, pr, bc, aq, cf, rn, ut, lc, dl>>

notBc == <<lifeVars, pr, rw, aq, cf, rn, ut, lc, dl>>

notAq == <<lifeVars, pr, rw, bc, cf, rn, ut, lc, dl>>

notCf == <<lifeVars, pr, rw, bc, aq, rn, ut, lc, dl>>

notRn == <<lifeVars, pr, rw, bc, aq, cf, ut, lc, dl>>

notUt == <<lifeVars, pr, rw, bc, aq, cf, rn, lc, dl>>

notLc == <<lifeVars, pr, rw, bc, aq, cf, rn, ut, dl>>

notDl == <<lifeVars, pr, rw, bc, aq, cf, rn, ut, lc>>

\* One pid and one temp-directory id for every child and directory a behaviour
\* can create: lifecycle call k, node i (0 for the single instance).
ResId(k, n, i) == (k - 1) * n + i + 1

Pids == 1..(MaxCalls * MaxReplicas)

\* No readiness prober runs on its own.
PrOff == [pc |-> "off"]

\* No goroutines share an instance.
RwOff == [pc |-> "off"]

\* No ensureBinary call runs on its own.
BcOff == [pc |-> "off"]

\* No ensureBinary call is followed step by step.
AqOff == [pc |-> "off"]

\* The program holds no Config value yet.
CfOff == [pc |-> "off"]

\* No configuration is being rendered.
RnOff == [pc |-> "off"]

\* No helper function is being called on its own.
UtOff == [pc |-> "off"]

\* No goroutines share an instance for lifecycle calls.
LcOff == [pc |-> "off"]

\* No goroutines are followed through the locks.
DlOff == [pc |-> "off"]

AuxIdle ==
    /\ dl = DlOff
    /\ lc = LcOff
    /\ ut = UtOff
    /\ pr = PrOff
    /\ rw = RwOff
    /\ bc = BcOff
    /\ aq = AqOff
    /\ cf = CfOff
    /\ rn = RnOff

(***************************************************************************)
(* Child processes.                                                        *)
(***************************************************************************)
\* How a child can end: exit codes 0, 143, 1, or death by a signal.
ExitStates == {"exit0", "exit143", "exit1", "sigTERM", "sigKILL", "sigSEGV"}

NoProc == [st |-> "none", term |-> FALSE, kill |-> FALSE]

\* exec.ExitError.ExitCode(): the exit code, or -1 when a signal ended the process.
ExitCode(s) ==
    CASE s = "exit0"   -> 0
      [] s = "exit143" -> 143
      [] s = "exit1"   -> 1
      [] OTHER         -> -1

\* The exit states a child that has ended may show to cmd.Wait: a crash at any
\* time, the reaction to a delivered SIGTERM (default action, or a handler
\* that exits), or death by a delivered SIGKILL.
ExitChoices(p) ==
    {"exit1", "sigSEGV"}
      \cup (IF procs[p].term THEN {"sigTERM", "exit0", "exit143"} ELSE {})
      \cup (IF procs[p].kill THEN {"sigKILL"} ELSE {})

\* syscall.Kill(-pgid, sig): the signal reaches the group while it is alive.
KillGroup(ps, p, sig) ==
    IF ps[p].st = "running"
    THEN IF sig = "TERM" THEN [ps EXCEPT ![p].term = TRUE]
                         ELSE [ps EXCEPT ![p].kill = TRUE]
    ELSE ps

\* The children among `keep'.  A lifecycle call that gets past its checks
\* runs with fresh pids and directory names, and nothing refers any more to
\* what earlier calls left behind except the handles of the struct: the
\* model keeps only those.
KeepProcs(keep) == [p \in Pids |-> IF p \in keep THEN procs[p] ELSE NoProc]

\* The child ends (a crash, or its reaction to a signal); it stays a zombie
\* until cmd.Wait reaps it.
ChildExit(p) ==
    /\ procs[p].st = "running"
    /\ procs' = [procs EXCEPT ![p].st = "zombie"]
    /\ UNCHANGED <<auxVars, dirs, dataDir, e, sp, pc, call, ncalls, result, loc, trace, clVars>>

(***************************************************************************)
(* stopProcess(cmd, timeout)                                               *)
(***************************************************************************)
\* The value of `result' while a lifecycle call is running.
Pending == <<"pending">>

SpOff == [pc |-> "off", pid |-> 0, done |-> "empty",
          go |-> "none", sigs |-> <<>>, result |-> "nil", wres |-> "none",
          obs |-> "none"]

\* The caller's call statement: stopProcess(cmd, timeout).
SpCall(p) == [SpOff EXCEPT !.pc = "entry", !.pid = p]

\* Fault for C10: every exit other than a clean one is reported.
StopResult_Strict(w) ==
    IF w = "exit0" THEN "nil"
    ELSE IF w # "waitErr" THEN "exitErr" ELSE "waitErr"

\* What the select's done case returns for the value received from cmd.Wait.
StopResult(w) ==
    IF w = "exit0" THEN "nil"
    ELSE IF w # "waitErr"
         THEN IF ExitCode(w) = -1 \/ ExitCode(w) = 143 THEN "nil" ELSE "exitErr"
         ELSE "waitErr"

\* Entry: the nil check, Getpgid, SIGTERM to the group, the waiting goroutine.
\* Getpgid finds a running child, fails for a reaped one, and for a zombie
\* the answer depends on the platform.
SpEntry ==
    /\ sp.pc = "entry"
    /\ IF sp.pid = 0
       THEN /\ sp' = [sp EXCEPT !.pc = "ret", !.result = "nil"]
            /\ UNCHANGED procs
       ELSE \E found \in BOOLEAN :
              /\ procs[sp.pid].st = "running" => found
              /\ procs[sp.pid].st \in {"none", "reaped"} => ~found
              /\ IF ~found
                 THEN /\ sp' = [sp EXCEPT !.pc = "ret", !.result = "nil"]
                      /\ UNCHANGED procs
                 ELSE /\ procs' = KillGroup(procs, sp.pid, "TERM")
                      /\ sp' = [sp EXCEPT !.pc = "select", !.go = "waiting",
                                          !.sigs = <<"TERM">>]
    /\ UNCHANGED <<auxVars, dirs, dataDir, e, pc, call, ncalls, result, loc, trace, clVars>>

\* The goroutine: done <- cmd.Wait().  Wait returns once the child has ended,
\* reaps it, and yields its exit state or an error of the wait itself.
SpGoWait ==
    /\ sp.go = "waiting"
    /\ procs[sp.pid].st = "zombie"
    /\ \E w \in ExitChoices(sp.pid) \cup {"waitErr"} :
          sp' = [sp EXCEPT !.go = "sent", !.done = w]
    /\ procs' = [procs EXCEPT ![sp.pid] = [NoProc EXCEPT !.st = "reaped"]]
    /\ UNCHANGED <<auxVars, dirs, dataDir, e, pc, call, ncalls, result, loc, trace, clVars>>

\* select, timeout case: time.After(timeout) fires and the select takes it;
\* SIGKILL to the group, then block on done.  `obs' keeps the state the child
\* was in when the select chose its case.
SpSelectTimeout ==
    /\ sp.pc = "select"
    /\ procs' = KillGroup(procs, sp.pid, "KILL")
    /\ sp' = [sp EXCEPT !.pc = "await", !.sigs = Append(@, "KILL"),
                        !.obs = procs[sp.pid].st]
    /\ UNCHANGED <<auxVars, dirs, dataDir, e, pc, call, ncalls, result, loc, trace, clVars>>

\* select, done case: the wait result decides the return value.
SpSelectDone ==
    /\ sp.pc = "select"
    /\ sp.done # "empty"
    /\ sp' = [sp EXCEPT !.pc = "ret", !.done = "empty", !.wres = sp.done,
                        !.result = StopResult(sp.done),
                        !.obs = procs[sp.pid].st]
    /\ UNCHANGED <<auxVars, procs, dirs, dataDir, e, pc, call, ncalls, result, loc, trace, clVars>>

\* Fault for C9: return ErrStopTimeout right after the forced kill.
SpAwait_NoWait ==
    /\ sp.pc = "await"
    /\ sp' = [sp EXCEPT !.pc = "ret", !.result = "ErrStopTimeout"]
    /\ UNCHANGED <<auxVars, procs, dirs, dataDir, e, pc, call, ncalls, result, loc, trace, clVars>>

\* <-done after the forced kill, then return ErrStopTimeout.
SpAwait ==
    /\ sp.pc = "await"
    /\ sp.done # "empty"
    /\ sp' = [sp EXCEPT !.pc = "ret", !.done = "empty", !.wres = sp.done,
                        !.result = "ErrStopTimeout"]
    /\ UNCHANGED <<auxVars, procs, dirs, dataDir, e, pc, call, ncalls, result, loc, trace, clVars>>

(***************************************************************************)
(* EmbeddedClickHouse: the single instance.                                *)
(***************************************************************************)
\* Ports the OS hands out for a bind to port 0.
EphemeralPorts == {49152, 49153}

\* The configurations an instance is built with: ports fixed or 0 (allocate),
\* a persistent data path or none.
Configs ==
    [tcpPort : {0, 9000}, httpPort : {0, 8123}, dataPath : {<<>>, <<"data">>}]

NewServer(cfg) ==
    [config |-> cfg, started |-> FALSE, cmd |-> 0, tmpDir |-> <<>>,
     tcpPort |-> 0, httpPort |-> 0, clusterManaged |-> FALSE]

\* The program built no single instance (it built a cluster).
NoServer == [started |-> FALSE]

LocNone == [tcp |-> 0, http |-> 0, dir |-> <<>>, cmd |-> 0, err |-> "nil",
            cleanups |-> <<>>]

\* The temp-directory ids among a set of paths.
TempIds(paths) == {q[2] : q \in {r \in paths : Len(r) = 2}}

\* os.RemoveAll(path): the directory is gone unless the removal fails.
RemoveAll(ds, path, ok) ==
    IF ok /\ Len(path) = 2 THEN ds \ {path[2]} ELSE ds

\* Fault for C1: the failure path drops the undo stack instead of unwinding it.
Fail_NoUnwind(err) ==
    /\ loc' = [loc EXCEPT !.err = err, !.cleanups = <<>>]
    /\ pc' = "rollback"

\* os.RemoveAll(path) seen from the persistent data path: it is gone if the
\* path is the data path and the removal succeeds.
RemoveData(dd, path, ok) ==
    IF ok /\ path = <<"data">> THEN FALSE ELSE dd

\* The id of a temp directory's path (0 for another path).
DirId(path) == IF Len(path) = 2 THEN path[2] ELSE 0

\* A fallible step of Start fails: the error is kept for the return and the
\* deferred cleanup runs.
Fail(err) ==
    /\ loc' = [loc EXCEPT !.err = err]
    /\ pc' = "rollback"

\* The direct lifecycle guard of a node that a cluster owns.
ClusterManagedGuard(n) == n.clusterManaged

\* Fault for C6: Start without the started check.
StartPrecheck_NoStartedCheck(n) ==
    IF ClusterManagedGuard(n) THEN "ErrClusterManaged" ELSE "ok"

\* Start's checks before any work.
StartPrecheck(n) ==
    IF ClusterManagedGuard(n) THEN "ErrClusterManaged"
    ELSE IF n.started THEN "ErrServerAlreadyStarted"
    ELSE "ok"

\* Fault for C7: Stop without the started check.
StopPrecheck_NoStartedCheck(n) ==
    IF ClusterManagedGuard(n) THEN "ErrClusterManaged" ELSE "ok"

\* Stop's checks before any work.
StopPrecheck(n) ==
    IF ClusterManagedGuard(n) THEN "ErrClusterManaged"
    ELSE IF ~n.started THEN "ErrServerNotStarted"
    ELSE "ok"

\* Start: lock, the started check, the empty undo stack.
Start_Enter ==
    /\ e # NoServer
    /\ pc = "idle"
    /\ ncalls < MaxCalls
    /\ call' = "Start"
    /\ ncalls' = ncalls + 1
    /\ trace' = <<>>
    /\ IF StartPrecheck(e) # "ok"
       THEN /\ result' = <<StartPrecheck(e)>>
            /\ UNCHANGED <<pc, loc, procs, dirs>>
       ELSE /\ pc' = "ensureBinary"
            /\ loc' = LocNone
            /\ procs' = KeepProcs({})
            /\ dirs' = {}
            /\ result' = Pending
    /\ UNCHANGED <<auxVars, dataDir, e, sp, clVars>>

\* binPath, err := ensureBinary(e.config)
Start_ensureBinary ==
    /\ pc = "ensureBinary"
    /\ \E ok \in BOOLEAN :
          IF ok THEN pc' = "allocatePorts" /\ UNCHANGED loc
                ELSE Fail("errEnsureBinary")
    /\ UNCHANGED <<auxVars, procs, dirs, dataDir, e, sp, call, ncalls, result, trace, clVars>>

\* allocatePort(): a port of the OS, or 0 with an error.
allocatePort == EphemeralPorts \cup {0}

\* The configured port, or an allocated one when the configured port is 0.
PortChoice(configured) ==
    IF configured = 0 THEN allocatePort ELSE {configured}

\* tcpPort and httpPort: the configured ones, or allocated.
Start_allocatePorts ==
    /\ pc = "allocatePorts"
    /\ \E t \in PortChoice(e.config.tcpPort) :
          IF t = 0 THEN Fail("errAllocatePort")
          ELSE \E h \in PortChoice(e.config.httpPort) :
                 IF h = 0 THEN Fail("errAllocatePort")
                 ELSE /\ loc' = [loc EXCEPT !.tcp = t, !.http = h]
                      /\ pc' = "createDir"
    /\ UNCHANGED <<auxVars, procs, dirs, dataDir, e, sp, call, ncalls, result, trace, clVars>>

\* The working directory: the configured data path (os.MkdirAll), or a fresh
\* temp directory (os.MkdirTemp) whose removal is pushed on the undo stack.
Start_createDir ==
    /\ pc = "createDir"
    /\ \E ok \in BOOLEAN :
          IF e.config.dataPath # <<>>
          THEN /\ IF ok THEN /\ dataDir' = TRUE
                             /\ loc' = [loc EXCEPT !.dir = e.config.dataPath]
                             /\ pc' = "writeServerConfig"
                        ELSE Fail("errCreateDataDir") /\ UNCHANGED dataDir
               /\ UNCHANGED <<dirs, trace>>
          ELSE /\ IF ok THEN /\ dirs' = dirs \cup {ncalls}
                             /\ loc' = [loc EXCEPT !.dir = <<"tmp", ncalls>>,
                                            !.cleanups = Append(@, "rmdir")]
                             /\ trace' = Append(trace, <<"mkdir", ncalls>>)
                             /\ pc' = "writeServerConfig"
                        ELSE Fail("errCreateTempDir") /\ UNCHANGED <<dirs, trace>>
               /\ UNCHANGED dataDir
    /\ UNCHANGED <<auxVars, procs, e, sp, call, ncalls, result, clVars>>

\* configPath, err := writeServerConfig(tmpDir, tcpPort, httpPort, settings)
Start_writeServerConfig ==
    /\ pc = "writeServerConfig"
    /\ \E ok \in BOOLEAN :
          IF ok THEN pc' = "startProcess" /\ UNCHANGED loc
                ELSE Fail("errWriteConfig")
    /\ UNCHANGED <<auxVars, procs, dirs, dataDir, e, sp, call, ncalls, result, trace, clVars>>

\* cmd, err := startProcess(...); on success the stop is pushed on the undo stack.
Start_startProcess ==
    /\ pc = "startProcess"
    /\ \E ok \in BOOLEAN :
          IF ok THEN /\ procs' = [procs EXCEPT ![ncalls].st = "running"]
                     /\ loc' = [loc EXCEPT !.cmd = ncalls,
                                           !.cleanups = Append(@, "stop")]
                     /\ trace' = Append(trace, <<"launch", ncalls>>)
                     /\ pc' = "waitForReady"
                ELSE Fail("errStartProcess") /\ UNCHANGED <<procs, trace>>
    /\ UNCHANGED <<auxVars, dirs, dataDir, e, sp, call, ncalls, result, clVars>>

\* Fault for C38: Start marks the instance started without keeping the handle.
StartSet_NoHandle(n, l) ==
    [n EXCEPT !.tmpDir = l.dir, !.tcpPort = l.tcp, !.httpPort = l.http,
              !.started = TRUE]

\* The fields Start sets once the server is ready.
StartSet(n, l) ==
    [n EXCEPT !.cmd = l.cmd, !.tmpDir = l.dir, !.tcpPort = l.tcp,
              !.httpPort = l.http, !.started = TRUE]

\* waitForReady(ctx, httpPort); on success the fields are set and Start
\* returns nil with success = true, so the deferred cleanup does nothing.
Start_waitForReady ==
    /\ pc = "waitForReady"
    /\ \E ok \in BOOLEAN :
          /\ trace' = Append(trace, <<"ping", loc.http, ok>>)
          /\ IF ok
             THEN /\ e' = StartSet(e, loc)
                  /\ result' = <<>>
                  /\ loc' = LocNone
                  /\ pc' = "idle"
             ELSE Fail("errNotReady") /\ UNCHANGED <<e, result>>
    /\ UNCHANGED <<auxVars, procs, dirs, dataDir, sp, call, ncalls, clVars>>

\* Fault for C35: the cleanup loop runs from the first undo action.
NextCleanup_Forward(cleanups) == 1

\* The cleanup loop: for i := len(cleanups) - 1; i >= 0; i--.
NextCleanup(cleanups) == Len(cleanups)

\* The undo actions still to run after the one at position i has run.
RestCleanups(cleanups, i) ==
    SubSeq(cleanups, 1, i - 1) \o SubSeq(cleanups, i + 1, Len(cleanups))

\* The deferred cleanup of a failed Start: the undo stack from the top; when
\* it is empty Start returns the error.
Start_rollback ==
    /\ pc = "rollback"
    /\ IF loc.cleanups = <<>>
       THEN /\ result' = <<loc.err>>
            /\ loc' = LocNone
            /\ pc' = "idle"
            /\ UNCHANGED <<dirs, dataDir, sp, trace>>
       ELSE LET n   == NextCleanup(loc.cleanups)
                top == loc.cleanups[n]
            IN  /\ loc' = [loc EXCEPT !.cleanups = RestCleanups(@, n)]
                /\ UNCHANGED result
                /\ IF top = "stop"
                   THEN /\ sp' = SpCall(loc.cmd)
                        /\ pc' = "rollbackStop"
                        /\ trace' = Append(trace, <<"stop", loc.cmd>>)
                        /\ UNCHANGED <<dirs, dataDir>>
                   ELSE \E ok \in BOOLEAN :
                          /\ dirs' = RemoveAll(dirs, loc.dir, ok)
                          /\ dataDir' = RemoveData(dataDir, loc.dir, ok)
                          /\ trace' = Append(trace, <<"rmdir", DirId(loc.dir)>>)
                          /\ UNCHANGED <<sp, pc>>
    /\ UNCHANGED <<auxVars, procs, e, call, ncalls, clVars>>

\* stopProcess returned inside the cleanup; its error is dropped.
Start_rollbackStopped ==
    /\ pc = "rollbackStop"
    /\ sp.pc = "ret"
    /\ sp' = SpOff
    /\ pc' = "rollback"
    /\ trace' = Append(trace, <<"stopped", sp.pid>>)
    /\ UNCHANGED <<auxVars, procs, dirs, dataDir, e, call, ncalls, result, loc, clVars>>

\* Fault for C17: Stop removes the working directory whatever it is.
RemovesOnStop_Always(n) == n.tmpDir # <<>>

\* Stop removes the working directory only if no data path was configured.
RemovesOnStop(n) == n.config.dataPath = <<>> /\ n.tmpDir # <<>>

\* The accessors: the address or URL formed around a port field.
TCPAddr(n) == <<"127.0.0.1:", n.tcpPort>>

HTTPAddr(n) == <<"127.0.0.1:", n.httpPort>>

DSN(n) == <<"clickhouse://127.0.0.1:", n.tcpPort, "/default">>

HTTPURL(n) == <<"http://127.0.0.1:", n.httpPort>>

\* Fault for C15: Stop resets the flag and the handle but not the ports.
StopReset_KeepPorts(n) == [n EXCEPT !.started = FALSE, !.cmd = 0]

\* Fault for C5: Stop resets the handle and the ports but not the flag.
StopReset_KeepStarted(n) ==
    [n EXCEPT !.cmd = 0, !.tcpPort = 0, !.httpPort = 0]

\* The runtime fields Stop resets before it returns.
StopReset(n) ==
    [n EXCEPT !.started = FALSE, !.cmd = 0, !.tcpPort = 0, !.httpPort = 0]

\* Stop: lock, the started check, then stopProcess(e.cmd, stopTimeout).
Stop_Enter ==
    /\ e # NoServer
    /\ pc = "idle"
    /\ ncalls < MaxCalls
    /\ call' = "Stop"
    /\ ncalls' = ncalls + 1
    /\ IF StopPrecheck(e) # "ok"
       THEN /\ result' = <<StopPrecheck(e)>>
            /\ trace' = <<>>
            /\ UNCHANGED <<pc, sp, procs, dirs>>
       ELSE /\ sp' = SpCall(e.cmd)
            /\ pc' = "stopProcess"
            /\ trace' = <<<<"stop", e.cmd>>>>
            /\ procs' = KeepProcs({e.cmd})
            /\ dirs' = dirs \cap TempIds({e.tmpDir})
            /\ result' = Pending
    /\ UNCHANGED <<auxVars, dataDir, e, loc, clVars>>

\* After stopProcess: the temp directory is removed unless a data path was
\* configured, the runtime fields are reset, the errors are joined.
Stop_Finish ==
    /\ pc = "stopProcess"
    /\ sp.pc = "ret"
    /\ LET errs1 == IF sp.result # "nil" THEN <<sp.result>> ELSE <<>>
       IN  IF RemovesOnStop(e)
           THEN \E ok \in BOOLEAN :
                  /\ dirs' = RemoveAll(dirs, e.tmpDir, ok)
                  /\ dataDir' = RemoveData(dataDir, e.tmpDir, ok)
                  /\ trace' = trace \o <<<<"stopped", sp.pid, sp.result>>,
                                         <<"rmdir", DirId(e.tmpDir)>>>>
                  /\ result' = IF ok THEN errs1
                                     ELSE Append(errs1, "errRemoveTempDir")
           ELSE /\ result' = errs1
                /\ trace' = Append(trace, <<"stopped", sp.pid, sp.result>>)
                /\ UNCHANGED <<dirs, dataDir>>
    /\ e' = StopReset(e)
    /\ sp' = SpOff
    /\ pc' = "idle"
    /\ UNCHANGED <<auxVars, procs, call, ncalls, loc, clVars>>

(***************************************************************************)
(* Cluster: N cluster-managed instances and the keeper quorum.             *)
(***************************************************************************)
minReplicas == 2

NewCluster(n) == [replicas |-> n, started |-> FALSE, nodes |-> 0]

\* The caller has made no Node(i) or Nodes() call since its last lifecycle
\* call.
NoGot == [call |-> "none"]

\* The program built no cluster (it built a single instance).
NoCluster == [started |-> FALSE, nodes |-> 0]

CLocNone == [i |-> 0, err |-> "nil", cleanups |-> <<>>, errs |-> <<>>,
             ports |-> <<>>]

\* allocateClusterNodePorts() for node i: five ports, kept symbolic here (which
\* numbers the OS hands out is left to the port allocator).
allocateClusterNodePorts(i) ==
    [TCP |-> 5 * i + 1, HTTP |-> 5 * i + 2, Interserver |-> 5 * i + 3,
     Keeper |-> 5 * i + 4, KeeperRaft |-> 5 * i + 5]

\* Fault for C8: the node object is built without the clusterManaged mark.
ClusterNode_Unmanaged(np, pid, dirId) ==
    [started |-> TRUE, cmd |-> pid, tmpDir |-> <<"tmp", dirId>>,
     tcpPort |-> np.TCP, httpPort |-> np.HTTP,
     interserverPort |-> np.Interserver, keeperPort |-> np.Keeper,
     keeperRaftPort |-> np.KeeperRaft, clusterManaged |-> FALSE]

\* The node object Cluster.Start builds for a launched process.
ClusterNode(np, pid, dirId) ==
    [started |-> TRUE, cmd |-> pid, tmpDir |-> <<"tmp", dirId>>,
     tcpPort |-> np.TCP, httpPort |-> np.HTTP,
     interserverPort |-> np.Interserver, keeperPort |-> np.Keeper,
     keeperRaftPort |-> np.KeeperRaft, clusterManaged |-> TRUE]

\* Fault for C2: the failure path of Cluster.Start drops the undo stack.
CFail_NoUnwind(err) ==
    /\ loc' = [loc EXCEPT !.err = err, !.cleanups = <<>>]
    /\ pc' = "c_rollback"

\* A fallible step of Cluster.Start fails.
CFail(err) ==
    /\ loc' = [loc EXCEPT !.err = err]
    /\ pc' = "c_rollback"

\* Fault for C26: a cluster of one replica is let through.
ReplicaCountValid_One(n) == n >= 1

\* The replica count check of Cluster.Start.
ReplicaCountValid(n) == ~(n < minReplicas)

\* Cluster.Start: lock, the started check, the replica count check.
Cluster_Start_Enter ==
    /\ c # NoCluster
    /\ pc = "idle"
    /\ ncalls < MaxCalls
    /\ call' = "ClusterStart"
    /\ ncalls' = ncalls + 1
    /\ trace' = <<>>
    /\ IF c.started
       THEN /\ result' = <<"ErrClusterAlreadyStarted">>
            /\ UNCHANGED <<pc, loc, procs, dirs>>
       ELSE IF ~ReplicaCountValid(c.replicas)
       THEN /\ result' = <<"ErrInvalidReplicaCount">>
            /\ UNCHANGED <<pc, loc, procs, dirs>>
       ELSE /\ pc' = "c_ensureBinary"
            /\ loc' = CLocNone
            /\ procs' = KeepProcs({})
            /\ dirs' = {}
            /\ result' = Pending
    /\ got' = NoGot
    /\ UNCHANGED <<auxVars, dataDir, e, sp, c, heap, held>>

\* binPath, err := ensureBinary(c.config), once for all nodes.
Cluster_ensureBinary ==
    /\ pc = "c_ensureBinary"
    /\ \E ok \in BOOLEAN :
          IF ok THEN pc' = "c_allocatePorts" /\ UNCHANGED loc
                ELSE CFail("errEnsureBinary")
    /\ UNCHANGED <<auxVars, procs, dirs, dataDir, e, sp, call, ncalls, result, trace, clVars>>

\* All ports up front: allocateClusterNodePorts() per replica.
Cluster_allocatePorts ==
    /\ pc = "c_allocatePorts"
    /\ \E ok \in BOOLEAN :
          IF ok THEN /\ loc' = [loc EXCEPT !.i = 0, !.ports =
                                  [k \in 1..c.replicas |->
                                      allocateClusterNodePorts(k - 1)]]
                     /\ pc' = "c_startNode"
                ELSE CFail("errAllocatePort")
    /\ UNCHANGED <<auxVars, procs, dirs, dataDir, e, sp, call, ncalls, result, trace, clVars>>

\* One turn of the start loop for node loc.i: os.MkdirTemp and its undo,
\* writeClusterNodeConfig, startProcess and its undo, the node object.
Cluster_startNode ==
    /\ pc = "c_startNode"
    /\ LET i  == loc.i
           id == ResId(ncalls, c.replicas, i)
           rm == Append(loc.cleanups, <<"rmdir", id>>)
       IN  \E o \in {"ok", "mkdirFails", "configFails", "startFails"} :
             CASE o = "mkdirFails" ->
                    /\ CFail("errCreateTempDir")
                    /\ UNCHANGED <<procs, dirs, heap, trace>>
               [] o = "configFails" ->
                    /\ dirs' = dirs \cup {id}
                    /\ loc' = [loc EXCEPT !.cleanups = rm, !.err = "errWriteConfig"]
                    /\ pc' = "c_rollback"
                    /\ trace' = Append(trace, <<"mkdir", id>>)
                    /\ UNCHANGED <<procs, heap>>
               [] o = "startFails" ->
                    /\ dirs' = dirs \cup {id}
                    /\ loc' = [loc EXCEPT !.cleanups = rm, !.err = "errStartNode"]
                    /\ pc' = "c_rollback"
                    /\ trace' = Append(trace, <<"mkdir", id>>)
                    /\ UNCHANGED <<procs, heap>>
               [] o = "ok" ->
                    /\ dirs' = dirs \cup {id}
                    /\ procs' = [procs EXCEPT ![id].st = "running"]
                    /\ heap' = [heap EXCEPT ![ncalls] =
                                  Append(@, ClusterNode(loc.ports[i + 1], id, id))]
                    /\ trace' = trace \o <<<<"mkdir", id>>, <<"launch", id>>>>
                    /\ loc' = [loc EXCEPT !.cleanups = Append(rm, <<"stop", id>>),
                                          !.i = IF i + 1 < c.replicas THEN i + 1 ELSE 0]
                    /\ pc' = IF i + 1 < c.replicas THEN "c_startNode"
                                                   ELSE "c_waitForReady"
    /\ UNCHANGED <<auxVars, dataDir, e, sp, call, ncalls, result, c, held, got>>

\* One turn of the liveness loop: waitForReady(ctx, node.httpPort) for node loc.i.
Cluster_waitForReady ==
    /\ pc = "c_waitForReady"
    /\ LET node == heap[ncalls][loc.i + 1]
       IN  \E ok \in BOOLEAN :
             /\ trace' = Append(trace, <<"ping", node.httpPort, ok>>)
             /\ IF ok
                THEN /\ loc' = [loc EXCEPT !.i = IF loc.i + 1 < c.replicas
                                                 THEN loc.i + 1 ELSE 0]
                     /\ pc' = IF loc.i + 1 < c.replicas THEN "c_waitForReady"
                                                        ELSE "c_waitForKeeperQuorum"
                ELSE CFail("errNodeNotReady")
    /\ UNCHANGED <<auxVars, procs, dirs, dataDir, e, sp, call, ncalls, result, clVars>>

\* Fault for C3: the quorum probe goes to the last node.
QuorumNode_Last(nodes) == nodes[Len(nodes)]

\* The node the quorum probe is sent to: nodes[0].
QuorumNode(nodes) == nodes[1]

\* waitForKeeperQuorum(ctx, nodes[0].httpPort); on success the node list is
\* published and the cluster is marked started.
Cluster_waitForKeeperQuorum ==
    /\ pc = "c_waitForKeeperQuorum"
    /\ \E ok \in BOOLEAN :
          /\ trace' = Append(trace, <<"quorum", QuorumNode(heap[ncalls]).httpPort, ok>>)
          /\ IF ok
             THEN /\ c' = [c EXCEPT !.nodes = ncalls, !.started = TRUE]
                  /\ result' = <<>>
                  /\ loc' = CLocNone
                  /\ pc' = "idle"
             ELSE CFail("ErrKeeperNotReady") /\ UNCHANGED <<c, result>>
    /\ UNCHANGED <<auxVars, procs, dirs, dataDir, e, sp, call, ncalls, heap, held, got>>

\* The deferred cleanup of a failed Cluster.Start: the undo stack from the
\* top; when it is empty Start returns the error and its node slice is dropped.
Cluster_rollback ==
    /\ pc = "c_rollback"
    /\ IF loc.cleanups = <<>>
       THEN /\ result' = <<loc.err>>
            /\ loc' = CLocNone
            /\ heap' = [heap EXCEPT ![ncalls] = <<>>]
            /\ pc' = "idle"
            /\ UNCHANGED <<dirs, sp, trace>>
       ELSE LET n   == NextCleanup(loc.cleanups)
                top == loc.cleanups[n]
            IN  /\ loc' = [loc EXCEPT !.cleanups = RestCleanups(@, n)]
                /\ UNCHANGED <<result, heap>>
                /\ IF top[1] = "stop"
                   THEN /\ sp' = SpCall(top[2])
                        /\ pc' = "c_rollbackStop"
                        /\ trace' = Append(trace, <<"stop", top[2]>>)
                        /\ UNCHANGED dirs
                   ELSE \E ok \in BOOLEAN :
                          /\ dirs' = RemoveAll(dirs, <<"tmp", top[2]>>, ok)
                          /\ trace' = Append(trace, <<"rmdir", top[2]>>)
                          /\ UNCHANGED <<sp, pc>>
    /\ UNCHANGED <<auxVars, procs, dataDir, e, call, ncalls, c, held, got>>

\* stopProcess returned inside the cleanup; its error is dropped.
Cluster_rollbackStopped ==
    /\ pc = "c_rollbackStop"
    /\ sp.pc = "ret"
    /\ sp' = SpOff
    /\ pc' = "c_rollback"
    /\ trace' = Append(trace, <<"stopped", sp.pid>>)
    /\ UNCHANGED <<auxVars, procs, dirs, dataDir, e, call, ncalls, result, loc, clVars>>

\* Fault for C4: the loop of Cluster.Stop starts at node 0.
FirstToStop_Zero(nodes) == 0

\* The reverse loop of Cluster.Stop: i := len(c.nodes) - 1; i >= 0; i--.
FirstToStop(nodes) == Len(nodes) - 1

\* What one turn of Stop's loop adds to the trace after stopProcess returned
\* with error `res'.
StopEvents(node, res) ==
    <<<<"stopped", node.cmd, res>>>>
      \o (IF node.tmpDir # <<>> THEN <<<<"rmdir", node.tmpDir[2]>>>> ELSE <<>>)

\* Cluster.Stop: lock, the started check, then the reverse loop starts with
\* stopProcess on the last node.
Cluster_Stop_Enter ==
    /\ c # NoCluster
    /\ pc = "idle"
    /\ ncalls < MaxCalls
    /\ call' = "ClusterStop"
    /\ ncalls' = ncalls + 1
    /\ IF ~c.started
       THEN /\ result' = <<"ErrClusterNotStarted">>
            /\ trace' = <<>>
            /\ UNCHANGED <<pc, sp, loc, procs, dirs>>
       ELSE LET nodes == heap[c.nodes]
                last  == FirstToStop(nodes)
            IN  /\ loc' = [CLocNone EXCEPT !.i = last]
                /\ sp' = SpCall(nodes[last + 1].cmd)
                /\ pc' = "c_stopProcess"
                /\ trace' = <<<<"stop", nodes[last + 1].cmd>>>>
                /\ procs' = KeepProcs({nodes[k].cmd : k \in 1..Len(nodes)})
                /\ dirs' = dirs \cap TempIds({nodes[k].tmpDir : k \in 1..Len(nodes)})
                /\ result' = Pending
    /\ got' = NoGot
    /\ UNCHANGED <<auxVars, dataDir, e, c, heap, held>>

\* The rest of one turn of the reverse loop, for node loc.i: the error of
\* stopProcess, os.RemoveAll(node.tmpDir), the node reset; then the next
\* lower node, or the end of Stop.
Cluster_Stop_node ==
    /\ pc = "c_stopProcess"
    /\ sp.pc = "ret"
    /\ LET i     == loc.i
           node  == heap[c.nodes][i + 1]
           errs1 == IF sp.result # "nil"
                    THEN Append(loc.errs, <<i, sp.result>>) ELSE loc.errs
       IN  \E ok \in BOOLEAN :
             LET errs2 == IF node.tmpDir # <<>> /\ ~ok
                          THEN Append(errs1, <<i, "errRemoveTempDir">>) ELSE errs1
             IN  /\ IF node.tmpDir # <<>>
                    THEN /\ dirs' = RemoveAll(dirs, node.tmpDir, ok)
                    ELSE ok /\ UNCHANGED dirs
                 /\ heap' = [heap EXCEPT ![c.nodes][i + 1].started = FALSE,
                                         ![c.nodes][i + 1].cmd = 0]
                 /\ IF i > 0
                    THEN /\ loc' = [loc EXCEPT !.i = i - 1, !.errs = errs2]
                         /\ sp' = SpCall(heap[c.nodes][i].cmd)
                         /\ trace' = trace \o StopEvents(node, sp.result)
                                        \o <<<<"stop", heap[c.nodes][i].cmd>>>>
                         /\ UNCHANGED <<pc, c, result>>
                    ELSE /\ c' = [c EXCEPT !.started = FALSE, !.nodes = 0]
                         /\ trace' = trace \o StopEvents(node, sp.result)
                         /\ result' = errs2
                         /\ loc' = CLocNone
                         /\ sp' = SpOff
                         /\ pc' = "idle"
    /\ UNCHANGED <<auxVars, procs, dataDir, e, call, ncalls, held, got>>

\* Nodes(): c.nodes, under the shared lock (no Start or Stop is running).
\* The caller keeps the node slice of a started cluster.
Cluster_Nodes ==
    /\ c # NoCluster
    /\ pc = "idle"
    /\ got # [call |-> "Nodes", i |-> 0, panic |-> "", node |-> <<>>, nodes |-> c.nodes]
    /\ got' = [call |-> "Nodes", i |-> 0, panic |-> "", node |-> <<>>, nodes |-> c.nodes]
    /\ held' = IF c.nodes # 0 THEN c.nodes ELSE held
    /\ UNCHANGED <<auxVars, procs, dirs, dataDir, e, sp, pc, call, ncalls, result, loc,
                   trace, c, heap>>

\* The indexes the caller passes to Node.
NodeIndexes == (-1)..MaxReplicas

\* Fault for C28: Node does not check the index against 0.
IndexInRange_NoLower(i, n) == ~(i >= n)

\* The index check of Node.
IndexInRange(i, n) == ~(i < 0 \/ i >= n)

\* Node(index): panics if the cluster is not started or the index is out of
\* range, else returns c.nodes[index] (a reference: slice and position).
Node(cl, nodes, index) ==
    IF ~cl.started
    THEN [call |-> "Node", i |-> index, panic |-> "ErrClusterNotStarted",
          node |-> <<>>, nodes |-> 0]
    ELSE IF ~IndexInRange(index, Len(nodes))
    THEN [call |-> "Node", i |-> index, panic |-> "ErrNodeOutOfRange",
          node |-> <<>>, nodes |-> 0]
    ELSE [call |-> "Node", i |-> index, panic |-> "",
          node |-> <<cl.nodes, index + 1>>, nodes |-> 0]

\* Node(i) is called, under the shared lock (no Start or Stop is running).
Cluster_Node(i) ==
    /\ c # NoCluster
    /\ pc = "idle"
    /\ got # Node(c, IF c.nodes = 0 THEN <<>> ELSE heap[c.nodes], i)
    /\ got' = Node(c, IF c.nodes = 0 THEN <<>> ELSE heap[c.nodes], i)
    /\ UNCHANGED <<auxVars, procs, dirs, dataDir, e, sp, pc, call, ncalls, result, loc,
                   trace, c, heap, held>>

\* Start called directly on node i of the slice the caller holds.  Past its
\* checks the node would run the steps of Start; no node that ClusterNode
\* builds gets past them.
Node_Start(i) ==
    /\ pc = "idle"
    /\ ncalls < MaxCalls
    /\ held # 0
    /\ i \in 1..Len(heap[held])
    /\ call' = "NodeStart"
    /\ ncalls' = ncalls + 1
    /\ trace' = <<>>
    /\ IF StartPrecheck(heap[held][i]) # "ok"
       THEN /\ result' = <<StartPrecheck(heap[held][i])>>
            /\ UNCHANGED pc
       ELSE /\ pc' = "n_ensureBinary"
            /\ result' = Pending
    /\ got' = NoGot
    /\ UNCHANGED <<auxVars, procs, dirs, dataDir, e, sp, loc, c, heap, held>>

\* Stop called directly on node i of the slice the caller holds.  Past its
\* checks the node would run the steps of Stop; no node that ClusterNode
\* builds gets past them.
Node_Stop(i) ==
    /\ pc = "idle"
    /\ ncalls < MaxCalls
    /\ held # 0
    /\ i \in 1..Len(heap[held])
    /\ call' = "NodeStop"
    /\ ncalls' = ncalls + 1
    /\ trace' = <<>>
    /\ IF StopPrecheck(heap[held][i]) # "ok"
       THEN /\ result' = <<StopPrecheck(heap[held][i])>>
            /\ UNCHANGED pc
       ELSE /\ pc' = "n_stopProcess"
            /\ result' = Pending
    /\ got' = NoGot
    /\ UNCHANGED <<auxVars, procs, dirs, dataDir, e, sp, loc, c, heap, held>>

InitCluster ==
    /\ procs = [p \in Pids |-> NoProc]
    /\ dirs = {}
    /\ dataDir = FALSE
    /\ e = NoServer
    /\ sp = SpOff
    /\ pc = "idle"
    /\ call = "none"
    /\ ncalls = 0
    /\ result = <<>>
    /\ loc = CLocNone
    /\ trace = <<>>
    /\ \E n \in (-1)..MaxReplicas : c = NewCluster(n)
    /\ heap = [g \in 1..MaxCalls |-> <<>>]
    /\ held = 0
    /\ got = NoGot
    /\ AuxIdle

NextCluster ==
    \/ Cluster_Start_Enter
    \/ Cluster_ensureBinary
    \/ Cluster_allocatePorts
    \/ Cluster_startNode
    \/ Cluster_waitForReady
    \/ Cluster_waitForKeeperQuorum
    \/ Cluster_rollback
    \/ Cluster_rollbackStopped
    \/ Cluster_Stop_Enter
    \/ Cluster_Stop_node
    \/ Cluster_Nodes
    \/ \E i \in NodeIndexes : Cluster_Node(i)
    \/ \E i \in 1..MaxReplicas : Node_Start(i)
    \/ \E i \in 1..MaxReplicas : Node_Stop(i)
    \/ SpEntry
    \/ SpGoWait
    \/ SpSelectTimeout
    \/ SpSelectDone
    \/ SpAwait
    \/ \E p \in Pids : ChildExit(p)

SpecCluster == InitCluster /\ [][NextCluster]_vars


Init ==
    /\ procs = [p \in Pids |-> NoProc]
    /\ dirs = {}
    /\ dataDir = FALSE
    /\ \E cfg \in Configs : e = NewServer(cfg)
    /\ sp = SpOff
    /\ pc = "idle"
    /\ call = "none"
    /\ ncalls = 0
    /\ result = <<>>
    /\ loc = LocNone
    /\ trace = <<>>
    /\ c = NoCluster
    /\ heap = [g \in 1..MaxCalls |-> <<>>]
    /\ held = 0
    /\ got = NoGot
    /\ AuxIdle

Next ==
    \/ Start_Enter
    \/ Start_ensureBinary
    \/ Start_allocatePorts
    \/ Start_createDir
    \/ Start_writeServerConfig
    \/ Start_startProcess
    \/ Start_waitForReady
    \/ Start_rollback
    \/ Start_rollbackStopped
    \/ Stop_Enter
    \/ Stop_Finish
    \/ SpEntry
    \/ SpGoWait
    \/ SpSelectTimeout
    \/ SpSelectDone
    \/ SpAwait
    \/ \E p \in Pids : ChildExit(p)

Spec == Init /\ [][Next]_vars

\* A program that built either one: a single instance, or a cluster.
InitAll == Init \/ InitCluster

NextAll == Next \/ NextCluster

SpecAll == InitAll /\ [][NextAll]_vars

(***************************************************************************)
(* The readiness probers: waitForReady (GET /ping) and waitForKeeperQuorum *)
(* (GET /?query=SELECT 1 FROM system.zookeeper ...), one protocol.  Time   *)
(* is the order of three events of the environment: the ticker fires, the  *)
(* context's deadline passes, the endpoint starts to answer.               *)
(***************************************************************************)
\* What client.Do can come back with: an error, or a response.
NoAnswer == [err |-> "nothing", status |-> 0, body |-> ""]

RequestErrors ==
    [err : {"connRefused", "requestTimeout", "ctxDone"}, status : {0}, body : {""}]

Responses ==
    [err : {"none"}, status : {200, 201, 204, 299, 302, 404, 500},
     body : {"", "Ok.", "1"}]

\* Fault for C13: ping also wants the body of ClickHouse's /ping answer.
ping_NeedsBody(resp) ==
    resp.err = "none" /\ resp.status = 200 /\ resp.body = "Ok."

\* ping: the request succeeded and resp.StatusCode == http.StatusOK.
ping(resp) == resp.err = "none" /\ resp.status = 200

\* Fault for C14: keeperReady takes every 2xx status.
keeperReady_2xx(resp) == resp.err = "none" /\ resp.status \in 200..299

\* keeperReady: the same test on the answer of the query endpoint.
keeperReady(resp) == resp.err = "none" /\ resp.status = 200

\* The probe of one kind of prober.
Probe(kind, resp) == IF kind = "ready" THEN ping(resp) ELSE keeperReady(resp)

\* What the endpoint answers to a request made with ctx: nothing gets through
\* once ctx is done; an endpoint that is up answers 200; one that is not yet
\* up refuses, times out, or answers some other status.
Answers(ep, ctxDone) ==
    IF ctxDone THEN {r \in RequestErrors : r.err = "ctxDone"}
    ELSE IF ep = "up" THEN {r \in Responses : r.status = 200}
    ELSE {r \in RequestErrors : r.err # "ctxDone"}
           \cup {r \in Responses : r.status # 200}

\* The error of the select's ctx.Done() case, wrapping ctx.Err().
DeadlineError(kind) ==
    IF kind = "ready" THEN "errNotReady: ctx.Err" ELSE "ErrKeeperNotReady: ctx.Err"

\* Fault for C12: a refused connection ends the prober with an error.
PollOutcome_Escalate(kind, resp) ==
    IF Probe(kind, resp) THEN "nil"
    ELSE IF resp.err = "connRefused" THEN "errConnRefused" ELSE "again"

\* What a poll leads to: return nil, or go (back) to the select.
PollOutcome(kind, resp) == IF Probe(kind, resp) THEN "nil" ELSE "again"

\* The frame after a poll answered resp.  `upAtPoll' keeps whether some poll
\* was made before the deadline with the endpoint up.
AfterPoll(resp) ==
    LET o == PollOutcome(pr.kind, resp)
    IN  [pr EXCEPT !.polls = @ + 1, !.last = resp,
                   !.upAtPoll = @ \/ (pr.ep = "up" /\ ~pr.ctxDone),
                   !.pc = IF o = "again" THEN "select" ELSE "ret",
                   !.result = IF o = "again" THEN @ ELSE o]

\* The probes a probing phase makes after its first: none in Start; in
\* Cluster.Start with n replicas, n - 1 more liveness probes and the quorum
\* probe.
ProbesAfterFirst == {0} \cup minReplicas..MaxReplicas

\* The kind of a probe after which `left' more follow in a phase whose first
\* probe was followed by `after'.
ProbeKind(after, left) == IF after > 0 /\ left = 0 THEN "quorum" ELSE "ready"

\* Fault for C36: every probe of Cluster.Start gets a context of its own.
NextCtxDone_Fresh(ctxDone) == FALSE

\* The context of the next probe of the phase: the same ctx.
NextCtxDone(ctxDone) == ctxDone

\* context.WithTimeout(..., startTimeout) has been made and the first
\* waitForReady(ctx, httpPort) of the phase is called.  `late' says that
\* the start timeout has elapsed since then.
Probe_Enter ==
    /\ pr.pc = "off"
    /\ \E after \in ProbesAfterFirst, ep \in {"down", "up"} :
          pr' = [pc |-> "first", kind |-> "ready", ep |-> ep, ctxDone |-> FALSE,
                 tick |-> FALSE, polls |-> 0, last |-> NoAnswer,
                 result |-> "none", upBefore |-> ep = "up", upAtPoll |-> FALSE,
                 after |-> after, left |-> after, late |-> FALSE]
    /\ UNCHANGED notPr

\* Cluster.Start, after a probe returned nil: waitForReady for the next node,
\* or waitForKeeperQuorum after the last, against that node's endpoint.
Probe_Next ==
    /\ pr.pc = "ret"
    /\ pr.result = "nil"
    /\ pr.left > 0
    /\ \E ep \in {"down", "up"} :
          pr' = [pr EXCEPT !.pc = "first", !.kind = ProbeKind(pr.after, pr.left - 1),
                           !.ep = ep, !.ctxDone = NextCtxDone(pr.ctxDone),
                           !.tick = FALSE, !.polls = 0, !.last = NoAnswer,
                           !.result = "none",
                           !.upBefore = (ep = "up" /\ ~NextCtxDone(pr.ctxDone)),
                           !.upAtPoll = FALSE, !.left = pr.left - 1]
    /\ UNCHANGED notPr

\* The immediate poll before the ticker is made.
Probe_First ==
    /\ pr.pc = "first"
    /\ \E resp \in Answers(pr.ep, pr.ctxDone) : pr' = AfterPoll(resp)
    /\ UNCHANGED notPr

\* select, case <-ctx.Done(): the only error return.
Probe_SelectDone ==
    /\ pr.pc = "select"
    /\ pr.ctxDone
    /\ pr' = [pr EXCEPT !.pc = "ret", !.result = DeadlineError(pr.kind)]
    /\ UNCHANGED notPr

\* select, case <-ticker.C: one more poll.
Probe_SelectTick ==
    /\ pr.pc = "select"
    /\ pr.tick
    /\ \E resp \in Answers(pr.ep, pr.ctxDone) :
          pr' = [AfterPoll(resp) EXCEPT !.tick = FALSE]
    /\ UNCHANGED notPr

\* Environment: the ticker fires.
Ticker_Fire ==
    /\ pr.pc = "select"
    /\ ~pr.tick
    /\ pr.polls < MaxPolls
    /\ pr' = [pr EXCEPT !.tick = TRUE]
    /\ UNCHANGED notPr

\* Environment: the deadline of ctx passes, during a probe or between two
\* probes of a phase.
Ctx_Deadline ==
    /\ \/ pr.pc \in {"first", "select"}
       \/ pr.pc = "ret" /\ pr.result = "nil" /\ pr.left > 0
    /\ ~pr.ctxDone
    /\ pr' = [pr EXCEPT !.ctxDone = TRUE, !.late = TRUE]
    /\ UNCHANGED notPr

\* Environment: the endpoint starts to answer, and goes on answering.
Endpoint_Up ==
    /\ pr.pc \in {"first", "select"}
    /\ pr.ep = "down"
    /\ pr' = [pr EXCEPT !.ep = "up", !.upBefore = ~pr.ctxDone]
    /\ UNCHANGED notPr

\* A program that runs one prober against one endpoint.
InitProbe == InitCluster /\ c.replicas = minReplicas

NextProbe ==
    \/ Probe_Enter
    \/ Probe_Next
    \/ Probe_First
    \/ Probe_SelectDone
    \/ Probe_SelectTick
    \/ Ticker_Fire
    \/ Ctx_Deadline
    \/ Endpoint_Up

SpecProbe == InitProbe /\ [][NextProbe]_vars

\* The prober with the progress its goroutine and the clock make: a request
\* comes back (the client has a timeout), the select takes the ctx.Done()
\* case when that stays ready, and the deadline of ctx is reached.
SpecProbeLive ==
    /\ SpecProbe
    /\ WF_vars(Probe_First)
    /\ WF_vars(Probe_SelectDone)
    /\ WF_vars(Ctx_Deadline)

(***************************************************************************)
(* Accessors against lifecycle calls: one EmbeddedClickHouse, its          *)
(* sync.RWMutex, one goroutine that makes lifecycle calls and MaxReaders   *)
(* goroutines that call accessors.  Every field write and every field read *)
(* is a step of its own.                                                   *)
(***************************************************************************)

Readers == 1..MaxReaders

Accessors == {"TCPAddr", "HTTPAddr", "DSN", "HTTPURL"}

\* What accessor `which' returns for the fields n.
AccessorValue(which, n) ==
    CASE which = "TCPAddr"  -> TCPAddr(n)
      [] which = "HTTPAddr" -> HTTPAddr(n)
      [] which = "DSN"      -> DSN(n)
      [] which = "HTTPURL"  -> HTTPURL(n)

\* The field accessor `which' reads.
FieldRead(which) ==
    IF which \in {"TCPAddr", "DSN"} THEN "tcpPort" ELSE "httpPort"

\* The fields a lifecycle call writes once its work is done, in the order of
\* its assignments.
WriteSeq(op) ==
    CASE op = "Start"       -> <<"cmd", "tmpDir", "tcpPort", "httpPort", "started">>
      [] op = "Stop"        -> <<"started", "cmd", "tcpPort", "httpPort">>
      [] op = "ClusterStop" -> <<"started", "cmd">>

\* The value the lifecycle call writes to a field.
WriteValue(life, fld) ==
    IF life.op = "Start"
    THEN CASE fld = "cmd"      -> 1
           [] fld = "tmpDir"   -> <<"tmp", 1>>
           [] fld = "tcpPort"  -> life.tcp
           [] fld = "httpPort" -> life.http
           [] fld = "started"  -> TRUE
    ELSE CASE fld = "started"  -> FALSE
           [] OTHER            -> 0

\* Fault for C18: the accessor reads without taking the shared lock.
CanRLock_Unlocked(mu) == TRUE

\* RWMutex.RLock proceeds when no writer holds the lock.
CanRLock(mu) == ~mu.w

\* Fault for C37: Start and Stop run without the exclusive lock.
CanLock_Free(mu) == TRUE

\* RWMutex.Lock proceeds when nobody holds the lock.
CanLock(mu) == ~mu.w /\ mu.r = 0

LifeIdle == [pc |-> "idle", op |-> "none", tcp |-> 0, http |-> 0, n |-> 0]

AccIdle == [pc |-> "idle", which |-> "none", val |-> <<>>, pubv |-> <<>>,
            mid |-> FALSE, st |-> FALSE]

\* The lifecycle calls made on the instance: Start and Stop on a single
\* instance; on a node of a cluster, the section of Cluster.Stop for it.
LifeOps(kind) == IF kind = "instance" THEN {"Start", "Stop"} ELSE {"ClusterStop"}

\* The instance is shared: a single instance fresh from NewServer, or a node
\* that Cluster.Start has built and published.
RW_Enter ==
    /\ rw.pc = "off"
    /\ \E kind \in {"instance", "node"} :
         \E f \in IF kind = "instance"
                  THEN {NewServer(cfg) : cfg \in {g \in Configs : g.dataPath = <<>>}}
                  ELSE {ClusterNode(allocateClusterNodePorts(0), 1, 1)} :
            rw' = [pc |-> "on", kind |-> kind, mu |-> [w |-> FALSE, r |-> 0],
                   f |-> f, pub |-> f, life |-> LifeIdle,
                   acc |-> [g \in Readers |-> AccIdle]]
    /\ UNCHANGED notRw

\* e.mu.Lock() at the head of Start / Stop; node.mu.Lock() in Cluster.Stop.
Life_Lock ==
    /\ rw.pc = "on"
    /\ rw.life.pc = "idle"
    /\ CanLock(rw.mu)
    /\ \E op \in LifeOps(rw.kind) :
          /\ op = "ClusterStop" => rw.f.started
          /\ rw' = [rw EXCEPT !.mu.w = TRUE,
                              !.life = [LifeIdle EXCEPT !.pc = "locked", !.op = op]]
    /\ UNCHANGED notRw

\* The call's work under the lock, up to its field writes: the started
\* check, then for Start the steps that may fail and the ports it resolved.
Life_Body ==
    /\ rw.pc = "on"
    /\ rw.life.pc = "locked"
    /\ LET op == rw.life.op
       IN  IF (op = "Start" /\ rw.f.started) \/ (op = "Stop" /\ ~rw.f.started)
           THEN rw' = [rw EXCEPT !.life.pc = "unlock"]
           ELSE IF op = "Start"
           THEN \E t \in PortChoice(rw.f.config.tcpPort),
                   h \in PortChoice(rw.f.config.httpPort), ok \in BOOLEAN :
                   IF t = 0 \/ h = 0 \/ ~ok
                   THEN rw' = [rw EXCEPT !.life.pc = "unlock"]
                   ELSE rw' = [rw EXCEPT !.life.pc = "write", !.life.n = 1,
                                         !.life.tcp = t, !.life.http = h]
           ELSE rw' = [rw EXCEPT !.life.pc = "write", !.life.n = 1]
    /\ UNCHANGED notRw

\* One assignment to a field of the instance.
Life_Write ==
    /\ rw.pc = "on"
    /\ rw.life.pc = "write"
    /\ LET seq == WriteSeq(rw.life.op)
           fld == seq[rw.life.n]
       IN  rw' = [rw EXCEPT !.f[fld] = WriteValue(rw.life, fld),
                            !.life.n = @ + 1,
                            !.life.pc = IF rw.life.n = Len(seq) THEN "unlock" ELSE @]
    /\ UNCHANGED notRw

\* The deferred e.mu.Unlock(); node.mu.Unlock().  `pub' keeps the fields as
\* they are when the lock is released.
Life_Unlock ==
    /\ rw.pc = "on"
    /\ rw.life.pc = "unlock"
    /\ rw' = [rw EXCEPT !.mu.w = FALSE, !.pub = rw.f, !.life = LifeIdle]
    /\ UNCHANGED notRw

\* e.mu.RLock() at the head of an accessor.
Acc_RLock(g) ==
    /\ rw.pc = "on"
    /\ rw.acc[g].pc \in {"idle", "done"}
    /\ CanRLock(rw.mu)
    /\ \E which \in Accessors :
          rw' = [rw EXCEPT !.mu.r = @ + 1,
                           !.acc[g] = [AccIdle EXCEPT !.pc = "read", !.which = which]]
    /\ UNCHANGED notRw

\* The accessor reads its port field and formats it.  `pubv' is what it
\* would return for the fields as they were when the lock was last released,
\* `mid' whether a lifecycle call is inside its locked section, `st' the
\* started flag at the read.
Acc_Read(g) ==
    /\ rw.pc = "on"
    /\ rw.acc[g].pc = "read"
    /\ rw' = [rw EXCEPT !.acc[g].pc = "runlock",
                        !.acc[g].val = AccessorValue(rw.acc[g].which, rw.f),
                        !.acc[g].pubv = AccessorValue(rw.acc[g].which, rw.pub),
                        !.acc[g].mid = rw.life.pc # "idle",
                        !.acc[g].st = rw.f.started]
    /\ UNCHANGED notRw

\* The deferred e.mu.RUnlock(); the accessor returns.
Acc_RUnlock(g) ==
    /\ rw.pc = "on"
    /\ rw.acc[g].pc = "runlock"
    /\ rw' = [rw EXCEPT !.mu.r = @ - 1, !.acc[g].pc = "done"]
    /\ UNCHANGED notRw

\* A program whose goroutines share one instance.
InitLock == InitCluster /\ c.replicas = minReplicas

NextLock ==
    \/ RW_Enter
    \/ Life_Lock
    \/ Life_Body
    \/ Life_Write
    \/ Life_Unlock
    \/ \E g \in Readers : Acc_RLock(g)
    \/ \E g \in Readers : Acc_Read(g)
    \/ \E g \in Readers : Acc_RUnlock(g)

SpecLock == InitLock /\ [][NextLock]_vars

(***************************************************************************)
(* Concurrent lifecycle calls: one EmbeddedClickHouse, its sync.RWMutex,   *)
(* and MaxCallers goroutines that call Start and Stop on it.  `alive' are  *)
(* the children the instance launched that have not ended, `wins' the      *)
(* Start calls that returned nil since the last Stop that ran.             *)
(***************************************************************************)

Callers == 1..MaxCallers

CallerIdle == [pc |-> "idle", op |-> "none", pid |-> 0, res |-> "none", over |-> FALSE]

\* The instance, fresh from NewServer, is handed to the goroutines.
Lc_Enter ==
    /\ lc.pc = "off"
    /\ lc' = [pc |-> "on", mu |-> [w |-> FALSE, r |-> 0],
              f |-> [started |-> FALSE, cmd |-> 0], alive |-> {}, n |-> 0,
              wins |-> 0, fr |-> [g \in Callers |-> CallerIdle]]
    /\ UNCHANGED notLc

\* e.mu.Lock() at the head of Start / Stop.  `over' keeps whether another
\* call was inside its body at that time.
Lc_Lock(g) ==
    /\ lc.pc = "on"
    /\ lc.fr[g].pc = "idle"
    /\ lc.n < MaxCalls
    /\ CanLock(lc.mu)
    /\ \E op \in {"Start", "Stop"} :
          lc' = [lc EXCEPT !.mu.w = TRUE, !.n = @ + 1,
                           !.fr[g] = [CallerIdle EXCEPT !.pc = "check", !.op = op,
                                         !.over = \E h \in Callers : lc.fr[h].pc # "idle"]]
    /\ UNCHANGED notLc

\* if e.started { return ErrServerAlreadyStarted } in Start;
\* if !e.started { return ErrServerNotStarted } in Stop.
Lc_Check(g) ==
    /\ lc.pc = "on"
    /\ lc.fr[g].pc = "check"
    /\ LET op == lc.fr[g].op
       IN  IF op = "Start" /\ lc.f.started
           THEN lc' = [lc EXCEPT !.fr[g].pc = "unlock",
                                 !.fr[g].res = "ErrServerAlreadyStarted"]
           ELSE IF op = "Stop" /\ ~lc.f.started
           THEN lc' = [lc EXCEPT !.fr[g].pc = "unlock",
                                 !.fr[g].res = "ErrServerNotStarted"]
           ELSE lc' = [lc EXCEPT !.fr[g].pc = IF op = "Start" THEN "launch" ELSE "stop"]
    /\ UNCHANGED notLc

\* Start up to startProcess: a step before it fails, or the child is launched.
Lc_Launch(g) ==
    /\ lc.pc = "on"
    /\ lc.fr[g].pc = "launch"
    /\ \E ok \in BOOLEAN :
          IF ok
          THEN lc' = [lc EXCEPT !.alive = @ \cup {lc.n + g * MaxCalls},
                                !.fr[g].pid = lc.n + g * MaxCalls,
                                !.fr[g].pc = "wait"]
          ELSE lc' = [lc EXCEPT !.fr[g].pc = "unlock", !.fr[g].res = "errStart"]
    /\ UNCHANGED notLc

\* waitForReady returned: the fields are set and Start returns nil, or the
\* cleanup stops the child and Start returns the error.
Lc_Ready(g) ==
    /\ lc.pc = "on"
    /\ lc.fr[g].pc = "wait"
    /\ \E ok \in BOOLEAN :
          IF ok
          THEN lc' = [lc EXCEPT !.f = [started |-> TRUE, cmd |-> lc.fr[g].pid],
                                !.wins = @ + 1,
                                !.fr[g].pc = "unlock", !.fr[g].res = "nil"]
          ELSE lc' = [lc EXCEPT !.alive = @ \ {lc.fr[g].pid},
                                !.fr[g].pc = "unlock", !.fr[g].res = "errNotReady"]
    /\ UNCHANGED notLc

\* The body of Stop: stopProcess(e.cmd, ...) ends the child, the fields are
\* reset, and Stop returns nil or the errors it collected.
Lc_Stop(g) ==
    /\ lc.pc = "on"
    /\ lc.fr[g].pc = "stop"
    /\ \E res \in {"nil", "ErrStopTimeout"} :
          lc' = [lc EXCEPT !.alive = @ \ {lc.f.cmd},
                           !.f = [started |-> FALSE, cmd |-> 0],
                           !.wins = 0,
                           !.fr[g].pc = "unlock", !.fr[g].res = res]
    /\ UNCHANGED notLc

\* The deferred e.mu.Unlock(); the call returns.
Lc_Unlock(g) ==
    /\ lc.pc = "on"
    /\ lc.fr[g].pc = "unlock"
    /\ lc' = [lc EXCEPT !.mu.w = FALSE, !.fr[g].pc = "idle"]
    /\ UNCHANGED notLc

\* Environment: a child ends on its own.
Lc_ChildExit ==
    /\ lc.pc = "on"
    /\ \E p \in lc.alive : lc' = [lc EXCEPT !.alive = @ \ {p}]
    /\ UNCHANGED notLc

\* A program whose goroutines call Start and Stop on one instance.
InitCalls == InitCluster /\ c.replicas = minReplicas

NextCalls ==
    \/ Lc_Enter
    \/ \E g \in Callers : Lc_Lock(g)
    \/ \E g \in Callers : Lc_Check(g)
    \/ \E g \in Callers : Lc_Launch(g)
    \/ \E g \in Callers : Lc_Ready(g)
    \/ \E g \in Callers : Lc_Stop(g)
    \/ \E g \in Callers : Lc_Unlock(g)
    \/ Lc_ChildExit

SpecCalls == InitCalls /\ [][NextCalls]_vars

(***************************************************************************)
(* The locks: c.mu of a cluster, the mu of each of its nodes, and the      *)
(* package's downloadMu, used by MaxCallers goroutines.  A call is the     *)
(* sequence of lock operations of the path it takes; a pending Lock keeps  *)
(* new readers out, as sync.RWMutex does.                                  *)
(***************************************************************************)

ClusterMu == <<"c", 0>>

NodeMu(i) == <<"n", i>>

DownloadMu == <<"d", 0>>

\* The lock operations of ensureBinary: none on a cache hit or with a
\* configured binary, downloadMu around the download on a miss.
EnsureBinaryLocks == {<<>>, <<<<"Lock", DownloadMu>>, <<"Unlock", DownloadMu>>>>}

\* The loop of Cluster.Stop over the nodes i, i - 1, ..., 0.
RECURSIVE StopLoopLocks(_)
StopLoopLocks(i) ==
    IF i < 0 THEN <<>>
    ELSE <<<<"Lock", NodeMu(i)>>, <<"Unlock", NodeMu(i)>>>> \o StopLoopLocks(i - 1)

\* Fault for C39: Cluster.Stop locks a node before it locks the cluster.
ClusterStopLocks_NodeFirst(n) ==
    {<<<<"Lock", NodeMu(n - 1)>>, <<"Lock", ClusterMu>>, <<"Unlock", ClusterMu>>,
       <<"Unlock", NodeMu(n - 1)>>>>}

\* Cluster.Stop: c.mu, and inside it each node's mu in turn when started.
ClusterStopLocks(n) ==
    {<<<<"Lock", ClusterMu>>, <<"Unlock", ClusterMu>>>>,
     <<<<"Lock", ClusterMu>>>> \o StopLoopLocks(n - 1) \o <<<<"Unlock", ClusterMu>>>>}

\* The paths of a call on a cluster of n nodes, as lock operations.
LockPaths(op, n) ==
    CASE op = "ClusterStart" ->
           {<<<<"Lock", ClusterMu>>>> \o eb \o <<<<"Unlock", ClusterMu>>>> :
               eb \in EnsureBinaryLocks}
      [] op = "ClusterStop" -> ClusterStopLocks(n)
      [] op = "ClusterNode" -> {<<<<"RLock", ClusterMu>>, <<"RUnlock", ClusterMu>>>>}
      [] op = "ClusterDSN" ->
           {<<<<"RLock", ClusterMu>>, <<"RUnlock", ClusterMu>>>>,
            <<<<"RLock", ClusterMu>>, <<"RUnlock", ClusterMu>>,
              <<"RLock", NodeMu(0)>>, <<"RUnlock", NodeMu(0)>>>>}
      [] op = "NodeAccessor" ->
           {<<<<"RLock", NodeMu(i)>>, <<"RUnlock", NodeMu(i)>>>> : i \in 0..(n - 1)}
      [] op = "NodeStart" ->
           {<<<<"Lock", NodeMu(i)>>>> \o eb \o <<<<"Unlock", NodeMu(i)>>>> :
               i \in 0..(n - 1), eb \in EnsureBinaryLocks}
      [] op = "NodeStop" ->
           {<<<<"Lock", NodeMu(i)>>, <<"Unlock", NodeMu(i)>>>> : i \in 0..(n - 1)}

LockOps ==
    {"ClusterStart", "ClusterStop", "ClusterNode", "ClusterDSN",
     "NodeAccessor", "NodeStart", "NodeStop"}

Mutexes(n) == {ClusterMu, DownloadMu} \cup {NodeMu(i) : i \in 0..(n - 1)}

ThreadIdle == [prog |-> <<>>, k |-> 1, req |-> FALSE, held |-> <<>>]

\* The lock operation a goroutine is at.
NextOp(t) == dl.th[t].prog[dl.th[t].k]

\* The goroutine after the lock operation it was at; its call returns after
\* the last.
Advance(th, hs) ==
    IF th.k = Len(th.prog) THEN ThreadIdle
    ELSE [th EXCEPT !.k = @ + 1, !.req = FALSE, !.held = hs]

\* A cluster of n nodes and the goroutines that use it.
Dl_Enter ==
    /\ dl.pc = "off"
    /\ \E n \in minReplicas..MaxReplicas :
          dl' = [pc |-> "on", n |-> n,
                 mu |-> [m \in Mutexes(n) |-> [w |-> FALSE, r |-> 0, q |-> {}]],
                 th |-> [t \in Callers |-> ThreadIdle]]
    /\ UNCHANGED notDl

\* A goroutine makes a call, which takes one of its paths.
Dl_Call(t) ==
    /\ dl.pc = "on"
    /\ dl.th[t].prog = <<>>
    /\ \E op \in LockOps : \E path \in LockPaths(op, dl.n) :
          dl' = [dl EXCEPT !.th[t] = [ThreadIdle EXCEPT !.prog = path]]
    /\ UNCHANGED notDl

\* mu.Lock() is called: from now on new readers wait.
Dl_Request(t) ==
    /\ dl.pc = "on"
    /\ dl.th[t].prog # <<>>
    /\ NextOp(t)[1] = "Lock"
    /\ ~dl.th[t].req
    /\ dl' = [dl EXCEPT !.mu[NextOp(t)[2]].q = @ \cup {t}, !.th[t].req = TRUE]
    /\ UNCHANGED notDl

\* mu.Lock() returns.
Dl_Lock(t) ==
    /\ dl.pc = "on"
    /\ dl.th[t].prog # <<>>
    /\ NextOp(t)[1] = "Lock"
    /\ dl.th[t].req
    /\ CanLock(dl.mu[NextOp(t)[2]])
    /\ dl' = [dl EXCEPT !.mu[NextOp(t)[2]].w = TRUE,
                        !.mu[NextOp(t)[2]].q = @ \ {t},
                        !.th[t] = Advance(@, Append(dl.th[t].held, NextOp(t)[2]))]
    /\ UNCHANGED notDl

\* mu.RLock() returns: no writer holds the lock and none is pending.
Dl_RLock(t) ==
    /\ dl.pc = "on"
    /\ dl.th[t].prog # <<>>
    /\ NextOp(t)[1] = "RLock"
    /\ CanRLock(dl.mu[NextOp(t)[2]])
    /\ dl.mu[NextOp(t)[2]].q = {}
    /\ dl' = [dl EXCEPT !.mu[NextOp(t)[2]].r = @ + 1,
                        !.th[t] = Advance(@, Append(dl.th[t].held, NextOp(t)[2]))]
    /\ UNCHANGED notDl

\* mu.Unlock() or mu.RUnlock().
Dl_Unlock(t) ==
    /\ dl.pc = "on"
    /\ dl.th[t].prog # <<>>
    /\ NextOp(t)[1] \in {"Unlock", "RUnlock"}
    /\ LET m    == NextOp(t)[2]
           hs   == SelectSeq(dl.th[t].held, LAMBDA x : x # m)
       IN  dl' = [dl EXCEPT !.mu[m].w = IF NextOp(t)[1] = "Unlock" THEN FALSE ELSE @,
                            !.mu[m].r = IF NextOp(t)[1] = "RUnlock" THEN @ - 1 ELSE @,
                            !.th[t] = Advance(@, hs)]
    /\ UNCHANGED notDl

\* A program whose goroutines use a cluster, its nodes and the download.
InitLocks == InitCluster /\ c.replicas = minReplicas

NextLocks ==
    \/ Dl_Enter
    \/ \E t \in Callers : Dl_Call(t)
    \/ \E t \in Callers : Dl_Request(t)
    \/ \E t \in Callers : Dl_Lock(t)
    \/ \E t \in Callers : Dl_RLock(t)
    \/ \E t \in Callers : Dl_Unlock(t)

SpecLocks == InitLocks /\ [][NextLocks]_vars

(***************************************************************************)
(* The binary cache: MaxWorkers concurrent ensureBinary calls for one      *)
(* version, each a goroutine of one of two OS processes, each with one of  *)
(* two cache directories.  A file is an inode, the set of chunks written   *)
(* to it so far; a directory maps the temp name and the final name to      *)
(* inodes.  Archive and raw assets stage the binary the same way:          *)
(* binPath + ".tmp" is created, written, closed and renamed.               *)
(***************************************************************************)

Workers == 1..MaxWorkers

OSProcs == {1, 2}

CacheDirs == {"A", "B"}

\* cachedBinaryPath(dir, version) for the one version and platform.
cachedBinaryPath(dir) == <<dir, "clickhouse">>

\* The whole binary.
Complete == 1..MaxChunks

\* The positions at which a call is downloading.
Downloading == {"fetch", "open", "copy", "close", "rename"}

\* os.Stat(binPath) finds the cache entry.
Stat(fsd) == fsd.final # 0

\* Fault for C20: the check repeated under the lock never finds the entry.
Recheck_Never(fsd) == FALSE

\* The check of the cache path repeated after downloadMu is taken.
Recheck(fsd) == Stat(fsd)

\* os.Remove(tmp): the temp name is gone (the inode stays with its holders).
RemoveTmp(b, d) == [b EXCEPT !.fs[d].tmp = 0]

\* ensureBinary returns err (and the cache path when err is nil); the
\* deferred downloadMu.Unlock() runs if the call holds the lock.  `order'
\* keeps the downloads in the order they end, with their outcomes.
Return(b, w, err) ==
    LET me == b.w[w]
    IN  [b EXCEPT !.w[w].pc = "ret",
                  !.w[w].err = err,
                  !.w[w].path = IF err = "nil" THEN cachedBinaryPath(me.dir) ELSE <<>>,
                  !.mu[me.proc] = IF @ = w THEN 0 ELSE @,
                  !.order = IF me.dl THEN Append(@, <<w, err = "nil">>) ELSE @]

\* The calls are made: each by a goroutine of some process, with some cache
\* directory.
Bc_Enter ==
    /\ bc.pc = "off"
    /\ \E a \in [Workers -> [proc : OSProcs, dir : CacheDirs]] :
          /\ a[1] = [proc |-> 1, dir |-> "A"]
          /\ bc' = [pc |-> "on",
                    w |-> [w \in Workers |->
                             [proc |-> a[w].proc, dir |-> a[w].dir, pc |-> "new",
                              fd |-> 0, k |-> 0, miss1 |-> FALSE, dl |-> FALSE,
                              path |-> <<>>, err |-> "none"]],
                    mu |-> [q \in OSProcs |-> 0],
                    fs |-> [d \in CacheDirs |-> [tmp |-> 0, final |-> 0]],
                    ino |-> [i \in Workers |-> {}],
                    nino |-> 0,
                    order |-> <<>>]
    /\ UNCHANGED notBc

\* ensureBinary, head: a configured binary path is checked and returned
\* without a download; otherwise the cache directory is resolved.
Bc_Call(w) ==
    /\ bc.pc = "on"
    /\ bc.w[w].pc = "new"
    /\ \/ \E ok \in BOOLEAN :
            bc' = [bc EXCEPT !.w[w].pc = "ret",
                             !.w[w].err = IF ok THEN "nil" ELSE "errBinaryNotFound",
                             !.w[w].path = IF ok THEN <<"binaryPath">> ELSE <<>>]
       \/ bc' = [bc EXCEPT !.w[w].pc = "stat1"]
    /\ UNCHANGED notBc

\* The first os.Stat(binPath), without the lock.
Bc_Stat1(w) ==
    /\ bc.pc = "on"
    /\ bc.w[w].pc = "stat1"
    /\ IF Stat(bc.fs[bc.w[w].dir])
       THEN bc' = Return(bc, w, "nil")
       ELSE bc' = [bc EXCEPT !.w[w].pc = "lock", !.w[w].miss1 = TRUE]
    /\ UNCHANGED notBc

\* downloadMu.Lock(): the mutex of the caller's process.
Bc_Lock(w) ==
    /\ bc.pc = "on"
    /\ bc.w[w].pc = "lock"
    /\ bc.mu[bc.w[w].proc] = 0
    /\ bc' = [bc EXCEPT !.mu[bc.w[w].proc] = w, !.w[w].pc = "stat2"]
    /\ UNCHANGED notBc

\* The check repeated under the lock.
Bc_Recheck(w) ==
    /\ bc.pc = "on"
    /\ bc.w[w].pc = "stat2"
    /\ IF Recheck(bc.fs[bc.w[w].dir])
       THEN bc' = Return(bc, w, "nil")
       ELSE bc' = [bc EXCEPT !.w[w].pc = "fetch", !.w[w].dl = TRUE]
    /\ UNCHANGED notBc

\* The download up to the creation of binPath + ".tmp": the asset is
\* resolved, the cache directory made, the GET answered; for an archive, the
\* archive is downloaded, verified and opened up to the binary's entry.
Bc_Fetch(w) ==
    /\ bc.pc = "on"
    /\ bc.w[w].pc = "fetch"
    /\ \E ok \in BOOLEAN :
          IF ok THEN bc' = [bc EXCEPT !.w[w].pc = "open"]
          ELSE bc' = Return(bc, w, "errDownload")
    /\ UNCHANGED notBc

\* os.OpenFile(tmp, O_CREATE|O_WRONLY|O_TRUNC) / os.Create(tmp): the file of
\* that name is truncated, or a new one is made when there is none.
Bc_Open(w) ==
    /\ bc.pc = "on"
    /\ bc.w[w].pc = "open"
    /\ LET d == bc.w[w].dir
           i == IF bc.fs[d].tmp # 0 THEN bc.fs[d].tmp ELSE bc.nino + 1
       IN  \E ok \in BOOLEAN :
              IF ok
              THEN bc' = [bc EXCEPT !.ino[i] = {},
                                    !.fs[d].tmp = i,
                                    !.nino = IF i > @ THEN i ELSE @,
                                    !.w[w].fd = i, !.w[w].k = 0,
                                    !.w[w].pc = "copy"]
              ELSE bc' = Return(bc, w, "errCreate")
    /\ UNCHANGED notBc

\* io.Copy: the next chunk is written at the descriptor's offset; or the
\* copy fails, and the file is closed and the temp name removed.
Bc_Copy(w) ==
    /\ bc.pc = "on"
    /\ bc.w[w].pc = "copy"
    /\ LET me == bc.w[w]
       IN  \E ok \in BOOLEAN :
              IF ok
              THEN bc' = [bc EXCEPT !.ino[me.fd] = @ \cup {me.k + 1},
                                    !.w[w].k = @ + 1,
                                    !.w[w].pc = IF me.k + 1 = MaxChunks
                                                THEN "close" ELSE @]
              ELSE bc' = Return(RemoveTmp(bc, me.dir), w, "errWrite")
    /\ UNCHANGED notBc

\* out.Close() (and os.Chmod for a raw asset); on an error the temp name is
\* removed.
Bc_Close(w) ==
    /\ bc.pc = "on"
    /\ bc.w[w].pc = "close"
    /\ \E ok \in BOOLEAN :
          IF ok THEN bc' = [bc EXCEPT !.w[w].pc = "rename"]
          ELSE bc' = Return(RemoveTmp(bc, bc.w[w].dir), w, "errClose")
    /\ UNCHANGED notBc

\* os.Rename(tmp, binPath): the final name now names the file the temp name
\* named; it fails when there is no file of the temp name.
Bc_Rename(w) ==
    /\ bc.pc = "on"
    /\ bc.w[w].pc = "rename"
    /\ LET d == bc.w[w].dir
       IN  IF bc.fs[d].tmp # 0
           THEN bc' = Return([bc EXCEPT !.fs[d].final = bc.fs[d].tmp,
                                        !.fs[d].tmp = 0], w, "nil")
           ELSE bc' = Return(RemoveTmp(bc, d), w, "errRename")
    /\ UNCHANGED notBc

\* A program that only makes ensureBinary calls.
InitCache == InitCluster /\ c.replicas = minReplicas

NextCache ==
    \/ Bc_Enter
    \/ \E w \in Workers : Bc_Call(w)
    \/ \E w \in Workers : Bc_Stat1(w)
    \/ \E w \in Workers : Bc_Lock(w)
    \/ \E w \in Workers : Bc_Recheck(w)
    \/ \E w \in Workers : Bc_Fetch(w)
    \/ \E w \in Workers : Bc_Open(w)
    \/ \E w \in Workers : Bc_Copy(w)
    \/ \E w \in Workers : Bc_Close(w)
    \/ \E w \in Workers : Bc_Rename(w)

SpecCache == InitCache /\ [][NextCache]_vars

(***************************************************************************)
(* One ensureBinary call followed step by step: the configuration and the  *)
(* platform it runs with, the state of the digest file on the server, the  *)
(* files it touches and the log of what it did (file-system accesses,      *)
(* network requests, the download lock, warnings).                         *)
(***************************************************************************)

\* The files of one call: the configured binary, the cache entry, the
\* downloaded archive (asset.filename + ".tmp") and binPath + ".tmp".
FileNames == {"binaryPath", "final", "archive", "tmp"}

\* What the request for the digest file meets: a transport failure, a status
\* other than 200, a body that cannot be read, a body without a digest for
\* the asset, a digest that differs from the downloaded file's, or the
\* downloaded file's digest.
Digests == {"transport", "non200", "readErr", "notFound", "mismatch", "match"}

\* Fault for C24: the configured binary path is not looked at.
ExplicitPath_Ignored(cfg) == FALSE

\* ensureBinary takes its first branch: a binary path is configured.
ExplicitPath(cfg) == cfg.binaryPath # ""

\* Fault for C21: a digest that differs is taken like one that matches.
VerifyOutcome_AcceptMismatch(dg) ==
    CASE dg = "transport" -> "errDigestRequest"
      [] dg = "non200"    -> "skip"
      [] dg = "readErr"   -> "errDigestRead"
      [] dg = "notFound"  -> "ErrSHA512NotFound"
      [] dg = "mismatch"  -> "nil"
      [] dg = "match"     -> "nil"

\* verifySHA512: what the state of the digest file leads to.
VerifyOutcome(dg) ==
    CASE dg = "transport" -> "errDigestRequest"
      [] dg = "non200"    -> "skip"
      [] dg = "readErr"   -> "errDigestRead"
      [] dg = "notFound"  -> "ErrSHA512NotFound"
      [] dg = "mismatch"  -> "ErrSHA512Mismatch"
      [] dg = "match"     -> "nil"

\* The file the asset is downloaded to.
DownloadDest(asset) == IF asset = "archive" THEN "archive" ELSE "tmp"

\* The call did `what', and the log says so.
AqDo(a, what) == [a EXCEPT !.log = Append(@, what)]

\* os.Remove(name).
AqRemove(a, name) ==
    [AqDo(a, <<"remove", name>>) EXCEPT !.there = @ \ {name}]

\* The cache directories a Config names: none (the default directory under
\* the user's cache or home directory) or a relative one above the working
\* directory.
CachePaths == {"", "../cache"}

\* writeExecutable: strings.Contains(filepath.Clean(destPath), "..").  The
\* default directory is absolute and Clean leaves no ".." in it; a relative
\* path keeps the ".." it starts with.
UnsafePath(cfg) == cfg.cachePath = "../cache"

\* The state of the files and the record of the call an ensureBinary call
\* leaves behind when it returns.
Outcome(a) == [err |-> a.err, there |-> a.there, log |-> a.log, locked |-> a.locked]

\* Before the first call there is no earlier one.
NoOutcome == [err |-> "none", there |-> {}, log |-> <<>>, locked |-> FALSE]

\* Fault for C40: downloadMu.Unlock() is not deferred.
AqReturn_KeepLock(a, path, err) ==
    LET b == IF a.deferRemove THEN AqRemove(a, "archive") ELSE a
    IN  [b EXCEPT !.pc = "ret", !.path = path, !.err = err,
                  !.deferRemove = FALSE]

\* ensureBinary returns: the deferred os.Remove(archivePath) of
\* downloadAndExtract and the deferred downloadMu.Unlock() run first.
AqReturn(a, path, err) ==
    LET b == IF a.deferRemove THEN AqRemove(a, "archive") ELSE a
        d == IF a.locked THEN AqDo(b, <<"unlock">>) ELSE b
    IN  [d EXCEPT !.pc = "ret", !.path = path, !.err = err,
                  !.locked = FALSE, !.deferRemove = FALSE]

\* ensureBinary(cfg) is called: with or without a configured binary path,
\* on some platform, with the files and the digest server in some state.
Aq_Enter ==
    /\ aq.pc = "off"
    /\ \E bp \in {"", "custom"}, cp \in CachePaths,
          asset \in {"archive", "raw", "unsupported"},
          dg \in Digests, there \in SUBSET {"binaryPath", "final"} :
          aq' = [pc |-> "start", cfg |-> [binaryPath |-> bp, cachePath |-> cp],
                 asset |-> asset, attempt |-> 1, before |-> NoOutcome,
                 dg |-> dg, there |-> there,
                 data |-> [n \in FileNames |-> {}],
                 k |-> 0, log |-> <<>>, locked |-> FALSE, deferRemove |-> FALSE,
                 warned |-> FALSE, path |-> "", err |-> "none"]
    /\ UNCHANGED notAq

\* The head of ensureBinary: the configured binary path, or the cache path.
Aq_Start ==
    /\ aq.pc = "start"
    /\ IF ExplicitPath(aq.cfg)
       THEN LET a == AqDo(aq, <<"stat", "binaryPath">>)
            IN  IF "binaryPath" \in aq.there
                THEN aq' = AqReturn(a, "binaryPath", "nil")
                ELSE aq' = AqReturn(a, "", "errBinaryNotFound")
       ELSE \E ok \in {TRUE} \cup {aq.cfg.cachePath # ""} :
               IF ok THEN aq' = [aq EXCEPT !.pc = "stat1"]
               ELSE aq' = AqReturn(aq, "", "errCacheDir")
    /\ UNCHANGED notAq

\* The first os.Stat(binPath).
Aq_Stat1 ==
    /\ aq.pc = "stat1"
    /\ LET a == AqDo(aq, <<"stat", "final">>)
       IN  IF "final" \in aq.there
           THEN aq' = AqReturn(a, "final", "nil")
           ELSE aq' = [a EXCEPT !.pc = "lock"]
    /\ UNCHANGED notAq

\* Environment: meanwhile another call installs the cache entry.
Aq_OtherInstall ==
    /\ aq.pc = "lock"
    /\ "final" \notin aq.there
    /\ aq' = [aq EXCEPT !.there = @ \cup {"final"}, !.data["final"] = Complete]
    /\ UNCHANGED notAq

\* downloadMu.Lock().
Aq_Lock ==
    /\ aq.pc = "lock"
    /\ aq' = [AqDo(aq, <<"lock">>) EXCEPT !.locked = TRUE, !.pc = "stat2"]
    /\ UNCHANGED notAq

\* The check repeated under the lock.
Aq_Recheck ==
    /\ aq.pc = "stat2"
    /\ LET a == AqDo(aq, <<"stat", "final">>)
       IN  IF "final" \in aq.there
           THEN aq' = AqReturn(a, "final", "nil")
           ELSE aq' = [a EXCEPT !.pc = "resolve"]
    /\ UNCHANGED notAq

\* resolveCurrentPlatformAsset, then the switch on the asset type, up to the
\* download: the cache directory is made, and downloadAndExtract defers the
\* removal of the archive.
Aq_Resolve ==
    /\ aq.pc = "resolve"
    /\ IF aq.asset = "unsupported"
       THEN aq' = AqReturn(aq, "", "ErrUnsupportedPlatform")
       ELSE \E ok \in BOOLEAN :
               LET a == AqDo(aq, <<"mkdir", "cache">>)
               IN  IF ok
                   THEN aq' = [a EXCEPT !.pc = "get",
                                        !.deferRemove = aq.asset = "archive"]
                   ELSE aq' = AqReturn(a, "", "errCreateCacheDir")
    /\ UNCHANGED notAq

\* downloadFile: the GET of the asset and the check of its status.
Aq_Get ==
    /\ aq.pc = "get"
    /\ LET a == AqDo(aq, <<"net", "asset">>)
       IN  \E res \in {"transport", "non200", "ok"} :
              CASE res = "transport" -> aq' = AqReturn(a, "", "errDownload")
                [] res = "non200"    -> aq' = AqReturn(a, "", "ErrDownloadFailed")
                [] res = "ok"        -> aq' = [a EXCEPT !.pc = "create"]
    /\ UNCHANGED notAq

\* downloadFile: os.Create(destPath).
Aq_Create ==
    /\ aq.pc = "create"
    /\ LET dest == DownloadDest(aq.asset)
           a    == AqDo(aq, <<"create", dest>>)
       IN  \E ok \in BOOLEAN :
              IF ok
              THEN aq' = [a EXCEPT !.there = @ \cup {dest}, !.data[dest] = {},
                                   !.k = 0, !.pc = "body"]
              ELSE aq' = AqReturn(a, "", "errCreate")
    /\ UNCHANGED notAq

\* downloadFile: io.Copy(out, resp.Body), one chunk; on an error the file is
\* closed and removed.
Aq_Body ==
    /\ aq.pc = "body"
    /\ LET dest == DownloadDest(aq.asset)
       IN  \E ok \in BOOLEAN :
              IF ok
              THEN aq' = [aq EXCEPT !.data[dest] = @ \cup {aq.k + 1},
                                    !.k = @ + 1,
                                    !.pc = IF aq.k + 1 = MaxChunks
                                           THEN "closeDl" ELSE @]
              ELSE aq' = AqReturn(AqRemove(aq, dest), "", "errWrite")
    /\ UNCHANGED notAq

\* downloadFile: out.Close(); the download is done.  An archive is verified
\* next; a raw executable is made executable next.
Aq_CloseDl ==
    /\ aq.pc = "closeDl"
    /\ LET dest == DownloadDest(aq.asset)
       IN  \E ok \in BOOLEAN :
              IF ok
              THEN aq' = [aq EXCEPT !.pc = IF aq.asset = "archive"
                                           THEN "verify" ELSE "chmod"]
              ELSE aq' = AqReturn(AqRemove(aq, dest), "", "errClose")
    /\ UNCHANGED notAq

\* verifySHA512(archivePath, ...): the digest file is requested; a status
\* other than 200 skips the verification with a warning; a digest that
\* differs removes the archive.  fileSHA512 may fail to read the archive.
Aq_Verify ==
    /\ aq.pc = "verify"
    /\ LET a == AqDo(aq, <<"net", "sha512">>)
           o == VerifyOutcome(aq.dg)
       IN  CASE o = "skip" ->
                  aq' = [AqDo(a, <<"warn">>) EXCEPT !.warned = TRUE, !.pc = "extract"]
             [] o = "nil" ->
                  \E ok \in BOOLEAN :
                     IF ok THEN aq' = [a EXCEPT !.pc = "extract"]
                     ELSE aq' = AqReturn(a, "", "errHash")
             [] o = "ErrSHA512Mismatch" ->
                  \E ok \in BOOLEAN :
                     IF ok THEN aq' = AqReturn(AqRemove(a, "archive"), "", o)
                     ELSE aq' = AqReturn(a, "", "errHash")
             [] OTHER -> aq' = AqReturn(a, "", o)
    /\ UNCHANGED notAq

\* extractClickHouseBinary: the archive is read up to the binary's entry,
\* which writeExecutable then writes (its directory is made first).
Aq_Extract ==
    /\ aq.pc = "extract"
    /\ \E res \in {"errArchive", "ErrBinaryNotFound", "found"} :
          IF res = "found"
          THEN aq' = [AqDo(aq, <<"extract">>) EXCEPT !.pc = "open"]
          ELSE aq' = AqReturn(aq, "", res)
    /\ UNCHANGED notAq

\* writeExecutable: the directory is made, a destination path with ".." in
\* it is refused, then os.OpenFile(tmp, O_CREATE|O_WRONLY|O_TRUNC).
Aq_Open ==
    /\ aq.pc = "open"
    /\ LET a == AqDo(aq, <<"create", "tmp">>)
       IN  \E mk \in BOOLEAN, ok \in BOOLEAN :
              CASE ~mk -> aq' = AqReturn(aq, "", "errCreateDir")
                [] mk /\ UnsafePath(aq.cfg) ->
                     aq' = AqReturn(aq, "", "ErrInvalidPath")
                [] mk /\ ~UnsafePath(aq.cfg) /\ ok ->
                     aq' = [a EXCEPT !.there = @ \cup {"tmp"}, !.data["tmp"] = {},
                                     !.k = 0, !.pc = "copy"]
                [] OTHER -> aq' = AqReturn(a, "", "errCreate")
    /\ UNCHANGED notAq

\* writeExecutable: io.Copy(out, r), one chunk; on an error the file is
\* closed and removed.
Aq_Copy ==
    /\ aq.pc = "copy"
    /\ \E ok \in BOOLEAN :
          IF ok
          THEN aq' = [aq EXCEPT !.data["tmp"] = @ \cup {aq.k + 1},
                                !.k = @ + 1,
                                !.pc = IF aq.k + 1 = MaxChunks THEN "close" ELSE @]
          ELSE aq' = AqReturn(AqRemove(aq, "tmp"), "", "errWrite")
    /\ UNCHANGED notAq

\* writeExecutable: out.Close().
Aq_Close ==
    /\ aq.pc = "close"
    /\ \E ok \in BOOLEAN :
          IF ok THEN aq' = [aq EXCEPT !.pc = "rename"]
          ELSE aq' = AqReturn(AqRemove(aq, "tmp"), "", "errClose")
    /\ UNCHANGED notAq

\* downloadRawBinary: os.Chmod(tmp, 0o755).
Aq_Chmod ==
    /\ aq.pc = "chmod"
    /\ LET a == AqDo(aq, <<"chmod", "tmp">>)
       IN  \E ok \in BOOLEAN :
              IF ok THEN aq' = [a EXCEPT !.pc = "rename"]
              ELSE aq' = AqReturn(AqRemove(a, "tmp"), "", "errChmod")
    /\ UNCHANGED notAq

\* os.Rename(tmp, binPath), by writeExecutable or downloadRawBinary.
Aq_Rename ==
    /\ aq.pc = "rename"
    /\ LET a == AqDo(aq, <<"rename", "tmp", "final">>)
       IN  \E ok \in BOOLEAN :
              IF ok
              THEN aq' = AqReturn([a EXCEPT !.there = (@ \ {"tmp"}) \cup {"final"},
                                            !.data["final"] = aq.data["tmp"]],
                                  "final", "nil")
              ELSE aq' = AqReturn(AqRemove(a, "tmp"), "", "errRename")
    /\ UNCHANGED notAq

\* The caller of a failed ensureBinary(cfg) (Start, on its caller's retry)
\* calls it again with the same Config, on the same platform, with the files
\* as the failed call left them; the digest file on the server may have
\* changed meanwhile.
Aq_Retry ==
    /\ aq.pc = "ret"
    /\ aq.err # "nil"
    /\ ~ExplicitPath(aq.cfg)
    /\ aq.attempt < MaxAttempts
    /\ \E dg \in Digests :
          aq' = [aq EXCEPT !.pc = "start", !.dg = dg, !.k = 0, !.log = <<>>,
                           !.warned = FALSE, !.path = "", !.err = "none",
                           !.attempt = @ + 1, !.before = Outcome(aq)]
    /\ UNCHANGED notAq

\* A program that calls ensureBinary, and again when it has failed.
InitAcquire == InitCluster /\ c.replicas = minReplicas

NextAcquire ==
    \/ Aq_Enter
    \/ Aq_Start
    \/ Aq_Stat1
    \/ Aq_OtherInstall
    \/ Aq_Lock
    \/ Aq_Recheck
    \/ Aq_Resolve
    \/ Aq_Get
    \/ Aq_Create
    \/ Aq_Body
    \/ Aq_CloseDl
    \/ Aq_Verify
    \/ Aq_Extract
    \/ Aq_Open
    \/ Aq_Copy
    \/ Aq_Close
    \/ Aq_Chmod
    \/ Aq_Rename
    \/ Aq_Retry

SpecAcquire == InitAcquire /\ [][NextAcquire]_vars

(***************************************************************************)
(* Config values.  A program holds a Config `base', chains builder calls   *)
(* on it or on the result of the last call (`cur'), and may hand the       *)
(* result to NewCluster.  Durations are in seconds; a map or a writer is   *)
(* the reference to it.                                                    *)
(***************************************************************************)

defaultClusterStartTimeout == 180

\* The zero Config.
ZeroConfig ==
    [version |-> "", tcpPort |-> 0, httpPort |-> 0, cachePath |-> "",
     dataPath |-> "", binaryPath |-> "", binaryRepositoryURL |-> "",
     startTimeout |-> 0, stopTimeout |-> 0, logger |-> "nil",
     settings |-> "nil"]

DefaultConfig ==
    [ZeroConfig EXCEPT !.version = "25.8.16.34-lts", !.startTimeout = 30,
                       !.stopTimeout = 10, !.logger = "os.Stdout"]

ConfigFields == DOMAIN ZeroConfig

\* The builder methods, each with the field it assigns.
Builders ==
    [Version |-> "version", TCPPort |-> "tcpPort", HTTPPort |-> "httpPort",
     CachePath |-> "cachePath", DataPath |-> "dataPath",
     BinaryPath |-> "binaryPath", BinaryRepositoryURL |-> "binaryRepositoryURL",
     StartTimeout |-> "startTimeout", StopTimeout |-> "stopTimeout",
     Logger |-> "logger", Settings |-> "settings"]

\* The arguments the program passes to a builder.
BuilderArgs(b) ==
    CASE b = "Version"      -> {"25.3.14.14-lts", "25.8.16.34-lts"}
      [] b = "TCPPort"      -> {0, 9000}
      [] b = "HTTPPort"     -> {0, 8123}
      [] b = "StartTimeout" -> {1, defaultClusterStartTimeout, 240}
      [] b = "StopTimeout"  -> {0, 10}
      [] b = "Logger"       -> {"nil", "buf"}
      [] b = "Settings"     -> {"nil", "map1"}
      [] OTHER              -> {"", "x"}

\* A builder method: the receiver is a copy, c; its field is assigned; c is
\* returned.
Build(b, recv, v) ==
    LET copy == recv
    IN  [copy EXCEPT ![Builders[b]] = v]

\* Fault for C25: the methods have pointer receivers, so the assignment is
\* made to the caller's value.
AfterBuild_Pointer(recv, ret) == ret

\* The caller's value after the call: the method worked on a copy.
AfterBuild(recv, ret) == recv

\* Fault for C27: NewCluster keeps the start timeout it is given.
NewClusterConfig_NoFloor(config) ==
    IF Len(config) > 0 THEN config[1] ELSE DefaultConfig

\* NewCluster: the Config of the cluster, from the variadic argument.
NewClusterConfig(config) ==
    LET cfg == IF Len(config) > 0 THEN config[1] ELSE DefaultConfig
    IN  IF cfg.startTimeout < defaultClusterStartTimeout
        THEN [cfg EXCEPT !.startTimeout = defaultClusterStartTimeout]
        ELSE cfg

NoBuild == [b |-> "none"]

\* The program gets its first Config value.
Cfg_Enter ==
    /\ cf.pc = "off"
    /\ \E c0 \in {ZeroConfig, DefaultConfig} :
          cf' = [pc |-> "on", orig |-> c0, base |-> c0, cur |-> c0, n |-> 0,
                 last |-> NoBuild, given |-> <<>>, cluster |-> ZeroConfig]
    /\ UNCHANGED notCf

\* cur = base.B(v) or cur = cur.B(v) for a builder B and an argument v.
Cfg_Build ==
    /\ cf.pc = "on"
    /\ cf.n < MaxChain
    /\ \E on \in {"base", "cur"}, b \in DOMAIN Builders :
         \E v \in BuilderArgs(b) :
            LET recv  == cf[on]
                ret   == Build(b, recv, v)
                after == AfterBuild(recv, ret)
            IN  cf' = [cf EXCEPT !.base = IF on = "base" THEN after ELSE @,
                                 !.cur = ret,
                                 !.n = @ + 1,
                                 !.last = [b |-> b, arg |-> v, recv |-> recv,
                                           after |-> after, ret |-> ret]]
    /\ UNCHANGED notCf

\* NewCluster(replicas) or NewCluster(replicas, cur); `given' keeps the
\* argument as it was passed.
Cfg_NewCluster ==
    /\ cf.pc = "on"
    /\ \E config \in {<<>>, <<cf.cur>>} :
          cf' = [cf EXCEPT !.pc = "cluster", !.given = config,
                           !.cluster = NewClusterConfig(config)]
    /\ UNCHANGED notCf

\* A program that builds Config values.
InitConfig == InitCluster /\ c.replicas = minReplicas

NextConfig ==
    \/ Cfg_Enter
    \/ Cfg_Build
    \/ Cfg_NewCluster

SpecConfig == InitConfig /\ [][NextConfig]_vars

(***************************************************************************)
(* The rendered configurations.  A document is the sequence of its         *)
(* top-level elements under <clickhouse>, each a pair of its name and its  *)
(* content, in the order of the template; a list element's content is the  *)
(* sequence of its entries.  A string is the sequence of its characters.   *)
(***************************************************************************)

\* The setting keys a program uses, in the order text/template ranges over a
\* map (sorted), each with the classes of its characters.
SettingKeys == <<"", "9lives", "max-threads", "max_server_memory_usage", "tcp_port">>

KeyShape(k) ==
    CASE k = "" -> <<>>
      [] k = "9lives" -> <<"digit", "alpha">>
      [] k = "max-threads" -> <<"alpha", "hyphen", "alpha">>
      [] k = "max_server_memory_usage" -> <<"alpha", "underscore", "alpha">>
      [] k = "tcp_port" -> <<"alpha", "underscore", "alpha">>

\* Fault for C31: the first character is checked like the others.
validSettingKey_AnyFirst(k) ==
    \A i \in 1..Len(KeyShape(k)) :
        KeyShape(k)[i] \in {"alpha", "digit", "underscore"}

\* validSettingKey: ^[a-zA-Z][a-zA-Z0-9_]*$
validSettingKey(k) ==
    /\ Len(KeyShape(k)) >= 1
    /\ KeyShape(k)[1] = "alpha"
    /\ \A i \in 2..Len(KeyShape(k)) :
          KeyShape(k)[i] \in {"alpha", "digit", "underscore"}

SettingValues == {<<"2", "1", "4">>, <<"1", "<", "2">>}

\* The settings maps: some of the keys, each with a value.
SettingsMaps ==
    UNION {[K -> SettingValues] : K \in SUBSET {SettingKeys[i] : i \in 1..Len(SettingKeys)}}

\* xml.EscapeText, character by character.
xmlEscapeString(v) ==
    [i \in 1..Len(v) |->
        CASE v[i] = "<" -> "&lt;"
          [] v[i] = ">" -> "&gt;"
          [] v[i] = "&" -> "&amp;"
          [] OTHER      -> v[i]]

\* {{range $key, $value := .Settings}}: one element per entry, by sorted key.
RECURSIVE RangeSettings(_, _)
RangeSettings(settings, i) ==
    IF i > Len(SettingKeys) THEN <<>>
    ELSE (IF SettingKeys[i] \in DOMAIN settings
          THEN <<<<SettingKeys[i], xmlEscapeString(settings[SettingKeys[i]])>>>>
          ELSE <<>>) \o RangeSettings(settings, i + 1)

\* configTemplate executed on the data of writeServerConfig.
configTemplate(tcpPort, httpPort, dir, settings) ==
    <<<<"logger", <<"warning", 1>>>>,
      <<"tcp_port", tcpPort>>,
      <<"http_port", httpPort>>,
      <<"path", <<dir, "data">>>>,
      <<"tmp_path", <<dir, "tmp">>>>,
      <<"user_files_path", <<dir, "user_files">>>>,
      <<"format_schema_path", <<dir, "format_schemas">>>>,
      <<"max_server_memory_usage", <<"1", "0", "7", "3", "7", "4", "1", "8", "2", "4">>>>,
      <<"users", <<"default">>>>,
      <<"profiles", <<"default">>>>,
      <<"quotas", <<"default">>>>>>
    \o RangeSettings(settings, 1)

\* The first key of the settings that validSettingKey rejects, if any.
InvalidKeys(settings) == {k \in DOMAIN settings : ~validSettingKey(k)}

\* The directories writeServerConfig makes, in its order.
ServerDirs == <<"data", "tmp", "user_files", "format_schemas">>

\* The directories writeClusterNodeConfig makes, in its order.
ClusterNodeDirs ==
    <<"data", "tmp", "user_files", "format_schemas",
      "coordination/log", "coordination/snapshots">>

\* The paths made by the first m calls of os.MkdirAll over the directories.
MkdirAll(dir, names, m) == {<<dir, names[i]>> : i \in 1..m}

\* writeServerConfig: the error, or the document written to config.xml, and
\* the paths it made.  mkdirs is the number of os.MkdirAll calls that
\* succeed, createOk the outcome of os.Create.
writeServerConfig(dir, tcpPort, httpPort, settings, mkdirs, createOk) ==
    IF InvalidKeys(settings) # {}
    THEN [err |-> "ErrInvalidSettingKey", doc |-> <<>>, made |-> {}]
    ELSE IF mkdirs < Len(ServerDirs)
    THEN [err |-> "errCreateDir", doc |-> <<>>, made |-> MkdirAll(dir, ServerDirs, mkdirs)]
    ELSE IF ~createOk
    THEN [err |-> "errCreateConfig", doc |-> <<>>,
          made |-> MkdirAll(dir, ServerDirs, mkdirs)]
    ELSE [err |-> "nil", doc |-> configTemplate(tcpPort, httpPort, dir, settings),
          made |-> MkdirAll(dir, ServerDirs, mkdirs) \cup {<<dir, "config.xml">>}]

\* Fault for C29: the raft server id of a node is its index.
ServerID_ZeroBased(nodeIndex) == nodeIndex

\* ServerID: nodeIndex + 1.
ServerID(nodeIndex) == nodeIndex + 1

\* The three lists every node's file gets, built from all nodes of the
\* topology in their order.
raftServers(nodes) == [i \in 1..Len(nodes) |-> [ID |-> i, Port |-> nodes[i].KeeperRaft]]

keeperNodes(nodes) == [i \in 1..Len(nodes) |-> [Port |-> nodes[i].Keeper]]

clusterReplicas(nodes) == [i \in 1..Len(nodes) |-> [Port |-> nodes[i].TCP]]

\* clusterConfigTemplate executed on the data of writeClusterNodeConfig.
clusterConfigTemplate(dir, nodeIndex, topo) ==
    LET node == topo.Nodes[nodeIndex + 1]
    IN  <<<<"logger", <<"warning", 1>>>>,
          <<"tcp_port", node.TCP>>,
          <<"http_port", node.HTTP>>,
          <<"interserver_http_port", node.Interserver>>,
          <<"interserver_http_host", "127.0.0.1">>,
          <<"path", <<dir, "data">>>>,
          <<"tmp_path", <<dir, "tmp">>>>,
          <<"user_files_path", <<dir, "user_files">>>>,
          <<"format_schema_path", <<dir, "format_schemas">>>>,
          <<"users", <<"default">>>>,
          <<"profiles", <<"default">>>>,
          <<"quotas", <<"default">>>>,
          <<"keeper_server",
            [tcp_port |-> node.Keeper, server_id |-> ServerID(nodeIndex),
             raft_configuration |-> raftServers(topo.Nodes)]>>,
          <<"zookeeper", keeperNodes(topo.Nodes)>>,
          <<"remote_servers", clusterReplicas(topo.Nodes)>>,
          <<"distributed_ddl", "/clickhouse/task_queue/ddl">>,
          <<"macros", [shard |-> "01", replica |-> ServerID(nodeIndex)]>>>>
        \o RangeSettings(topo.Settings, 1)

\* buildClusterTopology: the ports, and a copy of the settings.
buildClusterTopology(ports, settings) ==
    [Nodes |-> ports, Settings |-> [k \in DOMAIN settings |-> settings[k]]]

\* writeClusterNodeConfig: the error, or the document written to config.xml.
writeClusterNodeConfig(dir, nodeIndex, topo, mkdirs, createOk) ==
    IF InvalidKeys(topo.Settings) # {}
    THEN [err |-> "ErrInvalidSettingKey", doc |-> <<>>, made |-> {}]
    ELSE IF mkdirs < Len(ClusterNodeDirs)
    THEN [err |-> "errCreateDir", doc |-> <<>>,
          made |-> MkdirAll(dir, ClusterNodeDirs, mkdirs)]
    ELSE IF ~createOk
    THEN [err |-> "errCreateConfig", doc |-> <<>>,
          made |-> MkdirAll(dir, ClusterNodeDirs, mkdirs)]
    ELSE [err |-> "nil", doc |-> clusterConfigTemplate(dir, nodeIndex, topo),
          made |-> MkdirAll(dir, ClusterNodeDirs, mkdirs) \cup {<<dir, "config.xml">>}]

\* The ports of node i: what allocateClusterNodePorts gave, one of two runs
\* of the allocator.
NodePortChoices(i) ==
    {allocateClusterNodePorts(i),
     [n \in DOMAIN allocateClusterNodePorts(i) |->
         allocateClusterNodePorts(i)[n] + 5 * (MaxReplicas + 1)]}

NotWritten == [err |-> "none", doc |-> <<>>, made |-> {}]

\* writeServerConfig is about to be called by Start.
Rn_EnterServer ==
    /\ rn.pc = "off"
    /\ \E t \in {9000, 49152}, h \in {8123}, settings \in SettingsMaps :
          rn' = [pc |-> "server", tcpPort |-> t, httpPort |-> h,
                 settings |-> settings, out |-> NotWritten]
    /\ UNCHANGED notRn

\* writeServerConfig(tmpDir, tcpPort, httpPort, settings).
Rn_WriteServer ==
    /\ rn.pc = "server"
    /\ rn.out = NotWritten
    /\ \E mkdirs \in 0..Len(ServerDirs), createOk \in BOOLEAN :
          rn' = [rn EXCEPT !.out = writeServerConfig("dir", rn.tcpPort, rn.httpPort,
                                                     rn.settings, mkdirs, createOk)]
    /\ UNCHANGED notRn

\* Cluster.Start has allocated the ports of its nodes and built the topology.
Rn_EnterCluster ==
    /\ rn.pc = "off"
    /\ \E n \in minReplicas..MaxReplicas, settings \in SettingsMaps :
         \E ports \in [1..n -> UNION {NodePortChoices(i) : i \in 0..(n - 1)}] :
            /\ \A i \in 1..n : ports[i] \in NodePortChoices(i - 1)
            /\ rn' = [pc |-> "cluster",
                      topo |-> buildClusterTopology(ports, settings),
                      files |-> [i \in 1..n |-> NotWritten]]
    /\ UNCHANGED notRn

\* writeClusterNodeConfig(tmpDir, i, topo), for the next node of the loop of
\* Cluster.Start; the loop ends at the first error.
Rn_WriteClusterNode ==
    /\ rn.pc = "cluster"
    /\ \E i \in 0..(Len(rn.files) - 1) :
          /\ rn.files[i + 1] = NotWritten
          /\ \A j \in 1..i : rn.files[j].err = "nil"
          /\ \E mkdirs \in 0..Len(ClusterNodeDirs), createOk \in BOOLEAN :
                rn' = [rn EXCEPT !.files[i + 1] =
                          writeClusterNodeConfig(<<"dir", i>>, i, rn.topo,
                                                 mkdirs, createOk)]
    /\ UNCHANGED notRn

\* A program that renders configurations.
InitRender == InitCluster /\ c.replicas = minReplicas

NextRender ==
    \/ Rn_EnterServer
    \/ Rn_WriteServer
    \/ Rn_EnterCluster
    \/ Rn_WriteClusterNode

SpecRender == InitRender /\ [][NextRender]_vars

(***************************************************************************)
(* The helper functions: numericVersion, parseSHA512 and                   *)
(* allocateClusterNodePorts, each called on its own.                       *)
(***************************************************************************)

\* A version string is the sequence of its tokens: a dotted number, a hyphen,
\* the channel names and another word.
VersionTokens == {"25.8", "-", "lts", "stable", "testing", "rc"}

RECURSIVE SeqsUpTo(_, _)
SeqsUpTo(S, n) ==
    IF n = 0 THEN {<<>>}
    ELSE LET shorter == SeqsUpTo(S, n - 1)
         IN  shorter \cup {Append(q, x) : q \in {r \in shorter : Len(r) = n - 1}, x \in S}

Versions == SeqsUpTo(VersionTokens, MaxTokens)

\* strings.LastIndex(s, "-"), counted from 1; 0 when there is none.
LastIndex(s, t) ==
    IF \E i \in 1..Len(s) : s[i] = t
    THEN CHOOSE i \in 1..Len(s) : s[i] = t /\ \A j \in (i + 1)..Len(s) : s[j] # t
    ELSE 0

\* numericVersion: without the part from the last hyphen on when what follows
\* it is lts, stable or testing.
numericVersion(v) ==
    LET i == LastIndex(v, "-")
    IN  IF i # 0 /\ SubSeq(v, i + 1, Len(v)) \in {<<"lts">>, <<"stable">>, <<"testing">>}
        THEN SubSeq(v, 1, i - 1)
        ELSE v

\* A word of a checksum file that stands for a hash: its characters (those
\* that tell it from the others) and its length.
HashWords ==
    {[text |-> <<"A", "b">>, len |-> 128],
     [text |-> <<"c", "d">>, len |-> 128],
     [text |-> <<"E">>, len |-> 12]}

Filenames == {"f.tgz", "g.tgz"}

\* A line of a checksum file, as strings.Fields splits it: blank, a hash
\* alone, or a hash and a file name.
ChecksumLines ==
    {<<>>} \cup {<<h>> : h \in HashWords}
           \cup {<<h, f>> : h \in HashWords, f \in Filenames}

Contents == SeqsUpTo(ChecksumLines, MaxLines)

\* strings.Split(strings.TrimSpace(content), "\n"): without the blank lines
\* at both ends; an empty string splits into one empty line.
RECURSIVE TrimLeft(_)
TrimLeft(ls) == IF ls # <<>> /\ Head(ls) = <<>> THEN TrimLeft(Tail(ls)) ELSE ls

RECURSIVE TrimRight(_)
TrimRight(ls) ==
    IF ls # <<>> /\ ls[Len(ls)] = <<>> THEN TrimRight(SubSeq(ls, 1, Len(ls) - 1)) ELSE ls

SplitLines(content) ==
    LET t == TrimRight(TrimLeft(content))
    IN  IF t = <<>> THEN <<<<>>>> ELSE t

\* strings.ToLower on a hash word.
ToLower(w) ==
    [w EXCEPT !.text = [i \in 1..Len(w.text) |->
                           CASE w.text[i] = "A" -> "a"
                             [] w.text[i] = "E" -> "e"
                             [] OTHER -> w.text[i]]]

\* len(parts) >= 2 && parts[1] == filename
LineNames(parts, filename) == Len(parts) >= 2 /\ parts[2] = filename

\* parseSHA512: the hash of the first line naming the file; else, when the
\* content is one line, its first word if that is 128 characters long; else
\* ErrSHA512NotFound.
parseSHA512(content, filename) ==
    LET lines == SplitLines(content)
        named == {i \in 1..Len(lines) : LineNames(lines[i], filename)}
    IN  IF named # {}
        THEN [hash |-> ToLower(lines[CHOOSE i \in named : \A j \in named : i <= j][1]),
              err |-> "nil"]
        ELSE IF Len(lines) = 1 /\ Len(lines[1]) >= 1 /\ lines[1][1].len = 128
        THEN [hash |-> ToLower(lines[1][1]), err |-> "nil"]
        ELSE [hash |-> <<>>, err |-> "ErrSHA512NotFound"]

\* The ports the kernel may give to a bind to 127.0.0.1:0.
KernelPorts == 49152..49157

\* allocatePort: net.Listen binds a port that no listener holds, or fails;
\* the listener is closed before the port is returned (0: an error).
allocatePortOn(listening) == (KernelPorts \ listening) \cup {0}

PortNames == <<"TCP", "HTTP", "Interserver", "Keeper", "KeeperRaft">>

\* numericVersion is about to be called on a version string.
Ut_NumericVersion_Enter ==
    /\ ut.pc = "off"
    /\ \E v \in Versions : ut' = [pc |-> "numericVersion", v |-> v, outs |-> <<>>]
    /\ UNCHANGED notUt

\* numericVersion(v), and then numericVersion of its result.
Ut_NumericVersion ==
    /\ ut.pc = "numericVersion"
    /\ Len(ut.outs) < 2
    /\ ut' = [ut EXCEPT !.outs = Append(ut.outs,
                 numericVersion(IF ut.outs = <<>> THEN ut.v ELSE ut.outs[Len(ut.outs)]))]
    /\ UNCHANGED notUt

\* parseSHA512 is about to be called on the body of a checksum file.
Ut_ParseSHA512_Enter ==
    /\ ut.pc = "off"
    /\ \E content \in Contents, f \in Filenames :
          ut' = [pc |-> "parseSHA512", content |-> content, filename |-> f,
                 outs |-> <<>>]
    /\ UNCHANGED notUt

\* parseSHA512(content, filename).
Ut_ParseSHA512 ==
    /\ ut.pc = "parseSHA512"
    /\ ut.outs = <<>>
    /\ ut' = [ut EXCEPT !.outs = <<parseSHA512(ut.content, ut.filename)>>]
    /\ UNCHANGED notUt

\* allocateClusterNodePorts is about to be called.
Ut_Allocate_Enter ==
    /\ ut.pc = "off"
    /\ ut' = [pc |-> "allocate", ports |-> <<>>, outs |-> <<>>]
    /\ UNCHANGED notUt

\* One allocatePort call of allocateClusterNodePorts: no listener of an
\* earlier call is still open.  An error ends the call.
Ut_AllocatePort ==
    /\ ut.pc = "allocate"
    /\ ut.outs = <<>>
    /\ Len(ut.ports) < Len(PortNames)
    /\ \E p \in allocatePortOn({}) :
          IF p = 0
          THEN ut' = [ut EXCEPT !.outs = <<[err |-> "errAllocatePort", np |-> <<>>]>>]
          ELSE ut' = [ut EXCEPT !.ports = Append(ut.ports, p)]
    /\ UNCHANGED notUt

\* return clusterNodePorts{...}, nil
Ut_Allocate_Return ==
    /\ ut.pc = "allocate"
    /\ ut.outs = <<>>
    /\ Len(ut.ports) = Len(PortNames)
    /\ ut' = [ut EXCEPT !.outs = <<[err |-> "nil", np |-> ut.ports]>>]
    /\ UNCHANGED notUt

\* A program that calls the helper functions.
InitUtil == InitCluster /\ c.replicas = minReplicas

NextUtil ==
    \/ Ut_NumericVersion_Enter
    \/ Ut_NumericVersion
    \/ Ut_ParseSHA512_Enter
    \/ Ut_ParseSHA512
    \/ Ut_Allocate_Enter
    \/ Ut_AllocatePort
    \/ Ut_Allocate_Return

SpecUtil == InitUtil /\ [][NextUtil]_vars

(***************************************************************************)
(* Properties.                                                             *)
(***************************************************************************)
\* The position of the first occurrence of event ev in the trace, 0 if none.
Pos(ev) ==
    IF \E k \in 1..Len(trace) : trace[k] = ev
    THEN CHOOSE k \in 1..Len(trace) :
            trace[k] = ev /\ \A j \in 1..(k - 1) : trace[j] # ev
    ELSE 0

\* Start has returned the error of one of its steps.
StartFailed ==
    /\ pc = "idle"
    /\ call = "Start"
    /\ result # <<>>
    /\ result # <<"ErrServerAlreadyStarted">>

\* What the deferred cleanup did about child and directory id: the child, if
\* launched, was stopped, and os.RemoveAll ran on the directory, if created,
\* after that.
Unwound(id) ==
    /\ Pos(<<"launch", id>>) > 0 =>
          /\ Pos(<<"stop", id>>) > Pos(<<"launch", id>>)
          /\ Pos(<<"stopped", id>>) > Pos(<<"stop", id>>)
    /\ Pos(<<"mkdir", id>>) > 0 =>
          /\ Pos(<<"rmdir", id>>) > Pos(<<"mkdir", id>>)
          /\ Pos(<<"rmdir", id>>) > Pos(<<"stopped", id>>)

ClusterStartFailed ==
    /\ pc = "idle"
    /\ call = "ClusterStart"
    /\ result # <<>>
    /\ result # <<"ErrClusterAlreadyStarted">>

\* The ids of the children and directories of the nodes of the current call.
NodeIds == {ResId(ncalls, c.replicas, i) : i \in 0..(c.replicas - 1)}

Events(kind) == SelectSeq(trace, LAMBDA ev : ev[1] = kind)

\* Every event of kind a comes before every event of kind b.
AllBefore(a, b) ==
    \A j, k \in 1..Len(trace) :
        trace[j][1] = a /\ trace[k][1] = b => j < k

\* C3: in every execution of Cluster.Start all N processes are launched
\* before the first liveness probe, the probes go to the nodes in index
\* order, each after the one before succeeded, all N have succeeded before
\* the one quorum probe, which goes to node 0, and the cluster is started
\* only once that probe has succeeded.
C3_PhaseOrder ==
    (call = "ClusterStart" /\ result # <<"ErrClusterAlreadyStarted">>) =>
        LET pings   == Events("ping")
            quorums == Events("quorum")
        IN  /\ AllBefore("launch", "ping")
            /\ pings # <<>> =>
                  \A id \in NodeIds : Pos(<<"launch", id>>) > 0
            /\ \A k \in 1..Len(pings) :
                  /\ k <= c.replicas
                  /\ pings[k][2] = allocateClusterNodePorts(k - 1).HTTP
                  /\ k < Len(pings) => pings[k][3]
            /\ AllBefore("ping", "quorum")
            /\ quorums # <<>> =>
                  /\ Len(quorums) = 1
                  /\ quorums[1][2] = allocateClusterNodePorts(0).HTTP
                  /\ Len(pings) = c.replicas
                  /\ \A k \in 1..Len(pings) : pings[k][3]
            /\ c.started =>
                  /\ quorums # <<>>
                  /\ trace[Len(trace)] = quorums[1]
                  /\ quorums[1][3]

\* Cluster.Start of the largest cluster has succeeded.
C3_Witness ==
    /\ pc = "idle"
    /\ call = "ClusterStart"
    /\ result = <<>>
    /\ c.started
    /\ c.replicas = MaxReplicas
    /\ Len(Events("launch")) = MaxReplicas
    /\ Len(Events("ping")) = MaxReplicas

\* Cluster.Stop has run its loop and returned.
ClusterStopped ==
    /\ pc = "idle"
    /\ call = "ClusterStop"
    /\ result # <<"ErrClusterNotStarted">>

\* The errors Cluster.Stop has to return, read off the trace from turn k on:
\* for each node, the error of stopProcess if any, then the error of
\* os.RemoveAll if the directory is still there.
RECURSIVE JoinedErrs(_)
JoinedErrs(k) ==
    IF 3 * k >= Len(trace) THEN <<>>
    ELSE LET i   == (Len(trace) \div 3) - 1 - k
             res == trace[3 * k + 2][3]
             dir == trace[3 * k + 3][2]
         IN  (IF res # "nil" THEN <<<<i, res>>>> ELSE <<>>)
               \o (IF dir \in dirs THEN <<<<i, "errRemoveTempDir">>>> ELSE <<>>)
               \o JoinedErrs(k + 1)

\* C4: Cluster.Stop stops the nodes in strictly decreasing index order, N-1
\* down to 0; every node gets its stopProcess and its os.RemoveAll whatever
\* failed before; the returned error holds every per-node failure.
C4_ReverseTeardown ==
    ClusterStopped =>
        /\ Len(trace) = 3 * c.replicas
        /\ \E g \in 1..MaxCalls :
             \A k \in 0..(c.replicas - 1) :
                LET id == ResId(g, c.replicas, c.replicas - 1 - k)
                IN  /\ trace[3 * k + 1] = <<"stop", id>>
                    /\ trace[3 * k + 2][1] = "stopped"
                    /\ trace[3 * k + 2][2] = id
                    /\ trace[3 * k + 3] = <<"rmdir", id>>
        /\ result = JoinedErrs(0)

\* Cluster.Stop returned after the last node's stop timed out and its
\* directory could not be removed, and node 0 was still stopped and its
\* directory removed.
C4_Witness ==
    /\ ClusterStopped
    /\ c.replicas = MaxReplicas
    /\ Len(result) >= 2
    /\ result[1] = <<MaxReplicas - 1, "ErrStopTimeout">>
    /\ result[2] = <<MaxReplicas - 1, "errRemoveTempDir">>
    /\ trace[Len(trace)][1] = "rmdir"
    /\ trace[Len(trace)][2] \notin dirs

\* A lifecycle call is entered by this step.
Called(name) == ncalls' = ncalls + 1 /\ call' = name

\* The step changes nothing but the bookkeeping of the call: no process, no
\* directory, no field of any object, no stopProcess, no event.
Untouched ==
    /\ trace' = <<>>
    /\ UNCHANGED <<procs, dirs, dataDir, e, sp, pc, loc, c, heap, held>>

\* Stop has run on a running instance and returned.
InstanceStopped ==
    /\ pc = "idle"
    /\ call = "Stop"
    /\ result # <<"ErrServerNotStarted">>

\* C5: once Stop has returned on a running instance or cluster, with nil or
\* with errors, the instance / cluster is not started: the next Start is not
\* rejected as already started and the next Stop returns the not-started
\* error.
C5_StoppedAfterStop ==
    /\ [](InstanceStopped => ~e.started)
    /\ [](ClusterStopped => ~c.started)
    /\ [][/\ (InstanceStopped /\ Called("Start")) =>
                 (result' = Pending /\ pc' = "ensureBinary")
          /\ (InstanceStopped /\ Called("Stop")) =>
                 result' = <<"ErrServerNotStarted">>
          /\ (ClusterStopped /\ Called("ClusterStart")) =>
                 result' # <<"ErrClusterAlreadyStarted">>
          /\ (ClusterStopped /\ Called("ClusterStop")) =>
                 result' = <<"ErrClusterNotStarted">>]_vars

\* Stop of a running instance returned both a stop timeout and a
\* directory-removal failure, and the instance is marked stopped.
C5_Witness ==
    /\ InstanceStopped
    /\ result = <<"ErrStopTimeout", "errRemoveTempDir">>
    /\ ~e.started
    /\ ncalls < MaxCalls

\* C6: Start on a running instance (cluster) returns ErrServerAlreadyStarted
\* (ErrClusterAlreadyStarted) and changes nothing: same children, ports and
\* directories, nothing acquired, no cleanup run.
C6_StartOnRunning ==
    [][/\ (e.started /\ Called("Start")) =>
              (result' = <<"ErrServerAlreadyStarted">> /\ Untouched)
       /\ (c.started /\ Called("ClusterStart")) =>
              (result' = <<"ErrClusterAlreadyStarted">> /\ Untouched)]_vars

\* Start was rejected on a running cluster whose nodes are all alive.
C6_Witness ==
    /\ pc = "idle"
    /\ call = "ClusterStart"
    /\ result = <<"ErrClusterAlreadyStarted">>
    /\ c.started
    /\ c.replicas = MaxReplicas
    /\ \A k \in 1..Len(heap[c.nodes]) :
          /\ procs[heap[c.nodes][k].cmd].st = "running"
          /\ heap[c.nodes][k].tmpDir[2] \in dirs

\* C7: Stop on an instance or cluster that is not running returns
\* ErrServerNotStarted / ErrClusterNotStarted, sends no signal, deletes
\* nothing and changes no state.
C7_StopOnNotRunning ==
    [][/\ (e # NoServer /\ ~e.started /\ Called("Stop")) =>
              (result' = <<"ErrServerNotStarted">> /\ Untouched)
       /\ (c # NoCluster /\ ~c.started /\ Called("ClusterStop")) =>
              (result' = <<"ErrClusterNotStarted">> /\ Untouched)]_vars

\* Stop was rejected on an instance whose only Start failed and left its
\* temp directory behind; the directory is still there.
C7_Witness ==
    /\ pc = "idle"
    /\ call = "Stop"
    /\ result = <<"ErrServerNotStarted">>
    /\ ~e.started
    /\ e.tmpDir = <<>>
    /\ dirs # {}

C9_KillAndReap ==
    /\ sp.pc = "ret" => sp.go # "waiting"
    /\ (sp.pc \in {"await", "ret"} /\ sp.obs = "running") =>
          /\ sp.sigs = <<"TERM", "KILL">>
          /\ sp.pc = "ret" =>
                /\ sp.result = "ErrStopTimeout"
                /\ sp.go = "sent"
                /\ sp.wres # "none"
                /\ procs[sp.pid].st = "reaped"

\* stopProcess returned ErrStopTimeout for a child that was running when the
\* timeout elapsed and died of the SIGKILL.
C9_Witness ==
    /\ sp.pc = "ret"
    /\ sp.obs = "running"
    /\ sp.result = "ErrStopTimeout"
    /\ sp.wres = "sigKILL"

\* The exit states of a child that ended because of SIGTERM.
TermExits == {"sigTERM", "exit0", "exit143"}

\* C10 (as the code has it): stopProcess returns success and sends no
\* SIGKILL when its select receives the wait result of a child that ended
\* because of SIGTERM; ErrStopTimeout is returned exactly when SIGKILL was
\* sent; SIGKILL is never sent before SIGTERM.
C10_GracefulStop ==
    /\ sp.sigs \in {<<>>, <<"TERM">>, <<"TERM", "KILL">>}
    /\ sp.pc = "ret" =>
          (sp.result = "ErrStopTimeout" <=> sp.sigs = <<"TERM", "KILL">>)
    /\ (sp.pc = "ret" /\ sp.sigs = <<"TERM">> /\ sp.wres \in TermExits) =>
          sp.result = "nil"

\* C10 as stated: a child that ended because of SIGTERM before the timeout
\* elapsed gets success and no SIGKILL; ErrStopTimeout exactly when SIGKILL
\* was sent; SIGKILL never before SIGTERM.
C10_AsStated ==
    /\ sp.sigs \in {<<>>, <<"TERM">>, <<"TERM", "KILL">>}
    /\ sp.pc = "ret" =>
          (sp.result = "ErrStopTimeout" <=> sp.sigs = <<"TERM", "KILL">>)
    /\ (sp.pc = "ret" /\ sp.wres \in TermExits
          /\ sp.obs \in {"zombie", "reaped"}) =>
          (sp.result = "nil" /\ sp.sigs = <<"TERM">>)

\* stopProcess returned success, without SIGKILL, for a child that SIGTERM
\* ended.
C10_Witness ==
    /\ sp.pc = "ret"
    /\ sp.wres = "sigTERM"
    /\ sp.sigs = <<"TERM">>
    /\ sp.result = "nil"

\* C11 as stated: when the select receives the wait result, stopProcess
\* returns success only for an exit state that SIGTERM induced or a clean
\* exit; every other exit state (another exit code, death by another signal,
\* a wait error) is returned as an error.
C11_AsStated ==
    (sp.pc = "ret" /\ sp.sigs = <<"TERM">> /\ sp.wres # "none") =>
        (sp.result = "nil" <=> sp.wres \in TermExits)

\* The prober has returned.
ProbeReturned == pr.pc = "ret"

\* C12: the prober never returns an error before its deadline: a connection
\* error, a non-success status or a request timeout sends it back to the
\* select, and its only error is the deadline error that wraps ctx.Err().
C12_NoErrorBeforeDeadline ==
    ProbeReturned =>
        /\ pr.result \in {"nil", DeadlineError(pr.kind)}
        /\ pr.result # "nil" => pr.ctxDone
        /\ pr.result = "nil" => Probe(pr.kind, pr.last)

\* The prober polled as often as it may, the last poll was refused, and it
\* returned the deadline error once the deadline had passed.
C12_Witness ==
    /\ ProbeReturned
    /\ pr.result = DeadlineError(pr.kind)
    /\ pr.polls = MaxPolls
    /\ pr.last.err = "connRefused"
    /\ pr.ctxDone

\* C13 (as the code has it): once a poll is made before the deadline with
\* the endpoint answering, waitForReady returns success; it returns the
\* deadline error only if no poll met the endpoint up before the deadline.
C13_SuccessAtAnsweredPoll ==
    pr.pc \in {"select", "ret"} =>
        /\ pr.upAtPoll => (pr.pc = "ret" /\ pr.result = "nil")
        /\ (pr.pc = "ret" /\ pr.result # "nil") => ~pr.upAtPoll

\* C13 as stated: if the endpoint starts to answer before the deadline and
\* goes on answering, waitForReady does not return the deadline error (taken
\* for the runs in which no poll was made after the deadline).
C13_AsStated ==
    (ProbeReturned /\ pr.upBefore /\ pr.last.err # "ctxDone") =>
        pr.result = "nil"

\* The endpoint came up after the first poll had failed and before the
\* deadline, and a later poll returned success.
C13_Witness ==
    /\ ProbeReturned
    /\ pr.kind = "ready"
    /\ pr.result = "nil"
    /\ pr.polls >= 2
    /\ pr.upBefore
    /\ ~pr.ctxDone

\* C14 (as the code has it): a liveness check and a coordination-readiness
\* check count as success exactly for status 200, whatever the body.
C14_SuccessIsStatus200 ==
    (pr.pc \in {"select", "ret"} /\ pr.last # NoAnswer) =>
        ((pr.pc = "ret" /\ pr.result = "nil")
            <=> (pr.last.err = "none" /\ pr.last.status = 200))

\* C14 as stated: the checks count as success for every 2xx status, and
\* only for 2xx, whatever the body.
C14_AsStated ==
    (pr.pc \in {"select", "ret"} /\ pr.last # NoAnswer /\ pr.result # DeadlineError(pr.kind)) =>
        ((pr.pc = "ret" /\ pr.result = "nil")
            <=> (pr.last.err = "none" /\ pr.last.status \in 200..299))

\* The quorum check succeeded on a 200 answer with an empty body.
C14_Witness ==
    /\ ProbeReturned
    /\ pr.kind = "quorum"
    /\ pr.result = "nil"
    /\ pr.last.status = 200
    /\ pr.last.body = ""

\* The ports the accessors of instance n report.
ReportedPorts(n) == {TCPAddr(n)[2], HTTPAddr(n)[2], DSN(n)[2], HTTPURL(n)[2]}

\* C15: after Stop has returned on a running single instance the handle is
\* nil and both ports are zero, so the accessors report port 0 and not the
\* bindings of the stopped run, after any sequence of Start and Stop and
\* also when the ports were fixed in the configuration.
C15_StopResetsRuntimeFields ==
    /\ InstanceStopped =>
          (e.cmd = 0 /\ e.tcpPort = 0 /\ e.httpPort = 0
             /\ ReportedPorts(e) = {0})
    /\ (e # NoServer /\ ~e.started /\ pc = "idle") => ReportedPorts(e) = {0}

\* The fourth call, a Stop of an instance with both ports fixed in the
\* configuration, has returned; the accessors report port 0.
C15_Witness ==
    /\ InstanceStopped
    /\ ncalls = 4
    /\ e.config.tcpPort = 9000
    /\ e.config.httpPort = 8123
    /\ ReportedPorts(e) = {0}

\* C16 as stated: after Cluster.Stop has returned, every node handle the
\* caller got from Nodes() before is reset like a stopped single instance:
\* not started, handle nil, every port field zero.
C16_AsStated ==
    (ClusterStopped /\ held # 0) =>
        \A k \in 1..Len(heap[held]) :
            LET node == heap[held][k]
            IN  /\ ~node.started
                /\ node.cmd = 0
                /\ node.tcpPort = 0
                /\ node.httpPort = 0
                /\ node.interserverPort = 0
                /\ node.keeperPort = 0
                /\ node.keeperRaftPort = 0
                /\ ReportedPorts(node) = {0}

\* The temp directories the current call has asked os.RemoveAll to remove.
Removals == {k \in 1..MaxCalls : Pos(<<"rmdir", k>>) > 0}

\* C17: Stop and the rollback of a failed Start remove the working
\* directory exactly when it is a temp directory that Start created; the
\* persistent data path, once created, is never removed.
C17_DeletionPolicy ==
    /\ [][dataDir => dataDir']_vars
    /\ [](InstanceStopped => (Removals # {} <=> e.config.dataPath = <<>>))
    /\ [](StartFailed => (Removals = {k \in 1..MaxCalls : Pos(<<"mkdir", k>>) > 0}))
    /\ [](call \in {"Start", "Stop"} => Pos(<<"rmdir", 0>>) = 0)

\* Stop has returned on an instance with a configured data path after an
\* earlier Start and Stop, and the data path is still there.
C17_Witness ==
    /\ InstanceStopped
    /\ ncalls = 4
    /\ e.config.dataPath = <<"data">>
    /\ dataDir

\* An accessor read and a lifecycle write of the same field are both about
\* to happen: neither is ordered before the other.
Racing ==
    \E g \in Readers :
        /\ rw.acc[g].pc = "read"
        /\ rw.life.pc = "write"
        /\ WriteSeq(rw.life.op)[rw.life.n] = FieldRead(rw.acc[g].which)

\* C18: accessors are race-free against lifecycle calls.  A read of a port
\* field happens with the shared lock held and a write with the exclusive
\* lock held, no read is concurrent with a write of the field it reads, and
\* what an accessor returns is what the fields were when the lock was last
\* released, never the ports of a Start that is still running; a single
\* instance reports a port only when it is started.  The same holds for a
\* cluster node against Cluster.Stop.
C18_AccessorsRaceFree ==
    rw.pc = "on" =>
        /\ ~Racing
        /\ rw.life.pc \in {"write", "unlock"} => (rw.mu.w /\ rw.mu.r = 0)
        /\ \A g \in Readers :
              /\ rw.acc[g].pc = "read" => (rw.mu.r > 0 /\ ~rw.mu.w)
              /\ rw.acc[g].pc \in {"runlock", "done"} =>
                    /\ ~rw.acc[g].mid
                    /\ rw.acc[g].val = rw.acc[g].pubv
                    /\ (rw.kind = "instance" /\ rw.acc[g].val[2] # 0)
                          => rw.acc[g].st

\* An accessor has returned the allocated port of a completed Start of a
\* started instance, and another accessor holds the shared lock and is about
\* to read.
C18_Witness ==
    /\ rw.pc = "on"
    /\ \E g, h \in Readers :
          /\ rw.acc[g].pc = "done"
          /\ rw.acc[g].val[2] \in EphemeralPorts
          /\ rw.acc[h].pc = "read"
          /\ rw.f.started

\* C19 as stated: in every interleaving of ensureBinary calls that share a
\* cache directory, goroutines of one process or different processes, a file
\* that exists at the final cache path holds the complete binary.
C19_AsStated ==
    bc.pc = "on" =>
        \A d \in CacheDirs :
            bc.fs[d].final # 0 => bc.ino[bc.fs[d].final] = Complete

\* The calls of process q that missed the cache on their first check.
Missed(q) ==
    {w \in Workers : bc.w[w].proc = q /\ bc.w[w].miss1}

\* The calls among S that use cache directory d.
OnDir(S, d) == {w \in S : bc.w[w].dir = d}

\* The downloads that calls of S made and ended, in the order they ended.
Ended(S) == SelectSeq(bc.order, LAMBDA o : o[1] \in S)

\* The first download of S to end succeeded.
FirstSucceeded(S) == Ended(S) # <<>> /\ Ended(S)[1][2]

\* All calls of S have returned, one download was made by them, and all
\* return the same cache path and no error.
OneDownloadSamePath(S) ==
    /\ Cardinality({w \in S : bc.w[w].dl}) = 1
    /\ \A w \in S : bc.w[w].err = "nil"
    /\ \A v, w \in S : bc.w[v].path = bc.w[w].path

AllReturned(S) == \A w \in S : bc.w[w].pc = "ret"

\* C20: within one process at most one download is in progress at a time;
\* and when several calls of one process for the same version and the same
\* cache directory miss the cache concurrently and the first download
\* succeeds, one download is made and all of them return the same cache path.
C20_DownloadSerialized ==
    bc.pc = "on" =>
        \A q \in OSProcs :
            /\ Cardinality({w \in Workers : bc.w[w].proc = q
                                            /\ bc.w[w].pc \in Downloading}) <= 1
            /\ \A d \in CacheDirs :
                  LET S == OnDir(Missed(q), d)
                  IN  (AllReturned(S) /\ FirstSucceeded(S))
                          => OneDownloadSamePath(S)

\* C20 as stated: the calls are told apart by version, OS and architecture
\* only, whatever their cache directory.
C20_AsStated ==
    bc.pc = "on" =>
        \A q \in OSProcs :
            LET S == Missed(q)
            IN  (AllReturned(S) /\ FirstSucceeded(S)) => OneDownloadSamePath(S)

\* Two calls of one process with one cache directory both missed the cache;
\* the first downloaded, the second found the entry under the lock.
C20_Witness ==
    /\ bc.pc = "on"
    /\ \E q \in OSProcs, d \in CacheDirs :
          LET S == OnDir(Missed(q), d)
          IN  /\ Cardinality(S) >= 2
              /\ AllReturned(S)
              /\ FirstSucceeded(S)
              /\ OneDownloadSamePath(S)

\* The call did `what'.
AqDid(what) == \E i \in 1..Len(aq.log) : aq.log[i] = what

\* The digest of the downloaded archive was compared with the published one
\* and differs.
DigestDiffers ==
    /\ aq.pc = "ret"
    /\ aq.asset = "archive"
    /\ AqDid(<<"net", "sha512">>)
    /\ aq.dg = "mismatch"
    /\ aq.err # "errHash"

\* C21: if the digest published for a downloaded archive differs from the
\* digest of the downloaded file, the acquisition fails with
\* ErrSHA512Mismatch, the downloaded file is deleted, nothing is extracted
\* and the call creates no file at the final cache path.
C21_MismatchFails ==
    DigestDiffers =>
        /\ aq.err = "ErrSHA512Mismatch"
        /\ aq.path = ""
        /\ "archive" \notin aq.there
        /\ AqDid(<<"remove", "archive">>)
        /\ ~AqDid(<<"extract">>)
        /\ ~AqDid(<<"create", "tmp">>)
        /\ ~AqDid(<<"rename", "tmp", "final">>)
        /\ "final" \in aq.there => aq.data["final"] = Complete

\* The archive was downloaded whole, its digest differed, and the call
\* returned.
C21_Witness ==
    /\ DigestDiffers
    /\ aq.data["archive"] = Complete
    /\ aq.err = "ErrSHA512Mismatch"

\* C22 as stated: whenever the digest file cannot be obtained, by a status
\* other than success or by a transport failure of the request, the
\* verification is skipped with a warning and the acquisition goes on to the
\* extraction.
C22_AsStated ==
    (aq.pc # "off" /\ AqDid(<<"net", "sha512">>)
       /\ aq.dg \in {"transport", "non200"}) =>
        /\ aq.warned
        /\ aq.err \notin {"errDigestRequest"}

\* C23 as stated: for a raw executable, a reachable digest file that differs
\* from the downloaded file makes the acquisition fail and the downloaded
\* file be deleted; the executable is not installed at the final cache path.
C23_AsStated ==
    (aq.pc = "ret" /\ aq.asset = "raw" /\ aq.dg = "mismatch"
       /\ AqDid(<<"chmod", "tmp">>)) =>
        /\ aq.err # "nil"
        /\ ~AqDid(<<"rename", "tmp", "final">>)

\* C24: with a configured binary path ensureBinary returns that path if the
\* file exists and fails otherwise; all it does is the one os.Stat of that
\* path: no download lock, no network request, no access to the cache.
C24_ExplicitPathOnly ==
    (aq.pc = "ret" /\ aq.cfg.binaryPath # "") =>
        /\ aq.log = <<<<"stat", "binaryPath">>>>
        /\ "binaryPath" \in aq.there => (aq.path = "binaryPath" /\ aq.err = "nil")
        /\ "binaryPath" \notin aq.there => (aq.path = "" /\ aq.err = "errBinaryNotFound")
        /\ aq.there \subseteq {"binaryPath", "final"}

\* A call with a configured binary path that does not exist has failed,
\* though the cache holds an entry.
C24_Witness ==
    /\ aq.pc = "ret"
    /\ aq.cfg.binaryPath # ""
    /\ aq.err = "errBinaryNotFound"
    /\ aq.there = {"final"}

\* C25: the Config builders do not mutate.  Every builder call returns a
\* Config that differs from its receiver in the field it sets at most, that
\* field holding the argument; the receiver is the same after the call; and
\* the first Config is what it was after any chain of builder calls.
C25_BuildersDoNotMutate ==
    (cf.pc # "off" /\ cf.last # NoBuild) =>
        /\ cf.last.ret[Builders[cf.last.b]] = cf.last.arg
        /\ \A f \in ConfigFields \ {Builders[cf.last.b]} :
              cf.last.ret[f] = cf.last.recv[f]
        /\ cf.last.after = cf.last.recv
        /\ cf.base = cf.orig

\* A chain of MaxChain calls, the last one on the first Config and changing
\* a field of it, has been made.
C25_Witness ==
    /\ cf.pc = "on"
    /\ cf.n = MaxChain
    /\ cf.last.recv = cf.orig
    /\ cf.last.ret # cf.orig
    /\ cf.cur # cf.base

\* Start is called on a cluster that is not started and has fewer replicas
\* than the minimum.
TooFewReplicas ==
    /\ c # NoCluster
    /\ ~c.started
    /\ c.replicas < minReplicas
    /\ Called("ClusterStart")

\* C26: Cluster.Start with a replica count below 2 returns
\* ErrInvalidReplicaCount and does nothing else: no binary is acquired, no
\* port allocated, no directory made, no process launched, and the cluster
\* is not started.
C26_InvalidReplicaCount ==
    [][TooFewReplicas =>
          /\ result' = <<"ErrInvalidReplicaCount">>
          /\ Untouched
          /\ pc' = "idle"
          /\ ~c'.started]_vars

\* The second Start of a cluster of one replica has been rejected.
C26_Witness ==
    /\ pc = "idle"
    /\ call = "ClusterStart"
    /\ c.replicas = 1
    /\ ncalls = 2
    /\ result = <<"ErrInvalidReplicaCount">>
    /\ ~c.started

\* The larger of two durations.
MaxDuration(a, b) == IF a < b THEN b ELSE a

\* The Config NewCluster was given, or the default one.
GivenConfig == IF cf.given = <<>> THEN DefaultConfig ELSE cf.given[1]

C28_NodeAccess ==
    /\ (c # NoCluster /\ ~c.started) => c.nodes = 0
    /\ got.call = "Node" =>
          IF c.started /\ 0 <= got.i /\ got.i < c.replicas
          THEN /\ got.panic = ""
               /\ got.node = <<c.nodes, got.i + 1>>
               /\ heap[c.nodes][got.i + 1].started
          ELSE got.panic # "" /\ got.node = <<>>
    /\ (got.call = "Nodes" /\ ~c.started) => got.nodes = 0

\* Node(0) panicked after a Start that failed and was rolled back.
C28_Witness ==
    /\ ClusterStartFailed
    /\ result # <<"ErrInvalidReplicaCount">>
    /\ got.call = "Node"
    /\ got.i = 0
    /\ got.panic = "ErrClusterNotStarted"

\* The content of the first top-level element of that name.
Elem(doc, name) == doc[CHOOSE i \in 1..Len(doc) : doc[i][1] = name][2]

\* How many top-level elements of that name the document has.
Count(doc, name) == Cardinality({i \in 1..Len(doc) : doc[i][1] = name})

\* The nodes (by index) whose file has been rendered.
Rendered == {i \in 0..(Len(rn.files) - 1) : rn.files[i + 1].err = "nil"}

\* C29: for one topology of N >= 2 nodes, each rendered node file carries
\* the node's own ports and the raft server id i + 1, which is within 1..N
\* and differs from node to node; the raft membership list, the list of
\* coordination clients and the list of remote replicas are the same in all
\* files, with the ports of all nodes in their order.
C29_NodeConfigs ==
    rn.pc = "cluster" =>
        /\ \A i \in Rendered :
              LET doc  == rn.files[i + 1].doc
                  node == rn.topo.Nodes[i + 1]
                  n    == Len(rn.topo.Nodes)
              IN  /\ Elem(doc, "tcp_port") = node.TCP
                  /\ Elem(doc, "http_port") = node.HTTP
                  /\ Elem(doc, "interserver_http_port") = node.Interserver
                  /\ Elem(doc, "keeper_server").tcp_port = node.Keeper
                  /\ Elem(doc, "keeper_server").server_id = i + 1
                  /\ Elem(doc, "keeper_server").server_id \in 1..n
                  /\ Elem(doc, "keeper_server").raft_configuration =
                        [k \in 1..n |-> [ID |-> k, Port |-> rn.topo.Nodes[k].KeeperRaft]]
                  /\ Elem(doc, "zookeeper") =
                        [k \in 1..n |-> [Port |-> rn.topo.Nodes[k].Keeper]]
                  /\ Elem(doc, "remote_servers") =
                        [k \in 1..n |-> [Port |-> rn.topo.Nodes[k].TCP]]
        /\ \A i, j \in Rendered :
              LET di == rn.files[i + 1].doc
                  dj == rn.files[j + 1].doc
              IN  /\ i # j => Elem(di, "keeper_server").server_id
                                 # Elem(dj, "keeper_server").server_id
                  /\ Elem(di, "keeper_server").raft_configuration
                        = Elem(dj, "keeper_server").raft_configuration
                  /\ Elem(di, "zookeeper") = Elem(dj, "zookeeper")
                  /\ Elem(di, "remote_servers") = Elem(dj, "remote_servers")

\* The files of all nodes of a topology have been rendered, with settings.
C29_Witness ==
    /\ rn.pc = "cluster"
    /\ Rendered = 0..(Len(rn.files) - 1)
    /\ DOMAIN rn.topo.Settings # {}
    /\ rn.topo.Nodes[1] # allocateClusterNodePorts(0)

\* C30 as stated: a user setting that names a key the generated
\* configuration defines replaces the default: every top-level key occurs at
\* most once in the rendered single-node configuration, and with
\* max_server_memory_usage in the settings the document has one
\* max_server_memory_usage element, with the user's value.
C30_AsStated ==
    (rn.pc = "server" /\ rn.out.err = "nil") =>
        /\ \A i \in 1..Len(rn.out.doc) : Count(rn.out.doc, rn.out.doc[i][1]) = 1
        /\ "max_server_memory_usage" \in DOMAIN rn.settings =>
              /\ Count(rn.out.doc, "max_server_memory_usage") = 1
              /\ Elem(rn.out.doc, "max_server_memory_usage")
                    = xmlEscapeString(rn.settings["max_server_memory_usage"])

\* The render calls that have returned: their settings and what they
\* returned.
RenderCalls ==
    IF rn.pc = "server" /\ rn.out # NotWritten
    THEN {[settings |-> rn.settings, out |-> rn.out]}
    ELSE IF rn.pc = "cluster"
    THEN {[settings |-> rn.topo.Settings, out |-> rn.files[i]] :
             i \in {j \in 1..Len(rn.files) : rn.files[j] # NotWritten}}
    ELSE {}

\* A key made of a letter followed by letters, digits and underscores.
WellFormedKey(k) ==
    /\ KeyShape(k) # <<>>
    /\ Head(KeyShape(k)) = "alpha"
    /\ \A i \in DOMAIN KeyShape(k) : KeyShape(k)[i] # "hyphen"
    /\ \A i \in DOMAIN KeyShape(k) : i > 1 => KeyShape(k)[i] \in {"alpha", "digit", "underscore"}

\* C31: a render call (single-node or cluster) returns ErrInvalidSettingKey
\* exactly when some key of its settings is not a letter followed by letters,
\* digits and underscores, and a call that returns it has made no directory
\* and no file.
C31_InvalidKeyRejected ==
    \A rc \in RenderCalls :
        /\ rc.out.err = "ErrInvalidSettingKey"
              <=> (\E k \in DOMAIN rc.settings : ~WellFormedKey(k))
        /\ rc.out.err = "ErrInvalidSettingKey" => rc.out.made = {}

\* A render call has rejected settings that hold a key starting with a digit
\* beside a well-formed key, and has made nothing.
C31_Witness ==
    \E rc \in RenderCalls :
        /\ "9lives" \in DOMAIN rc.settings
        /\ "tcp_port" \in DOMAIN rc.settings
        /\ rc.out.err = "ErrInvalidSettingKey"
        /\ rc.out.made = {}

\* C32 as stated: numericVersion applied to its own result gives that result
\* again, for every version string; and a string that does not end in
\* -lts, -stable or -testing is returned unchanged.
C32_AsStated ==
    ut.pc = "numericVersion" =>
        /\ Len(ut.outs) = 2 => ut.outs[2] = ut.outs[1]
        /\ (Len(ut.outs) >= 1
              /\ ~(Len(ut.v) >= 2 /\ ut.v[Len(ut.v) - 1] = "-"
                     /\ ut.v[Len(ut.v)] \in {"lts", "stable", "testing"}))
              => ut.outs[1] = ut.v

\* The content is made of one or more lines "hash  filename".
HashNameLines(content) ==
    /\ content # <<>>
    /\ \A i \in 1..Len(content) : Len(content[i]) = 2

\* C33 as stated: for content of one or more "hash  filename" lines,
\* parseSHA512 returns the lower-cased hash of the line that names the file
\* when there is one, and fails with ErrSHA512NotFound when no line names it,
\* whatever the number of lines.
C33_AsStated ==
    (ut.pc = "parseSHA512" /\ ut.outs # <<>> /\ HashNameLines(ut.content)) =>
        LET naming == {i \in 1..Len(ut.content) : ut.content[i][2] = ut.filename}
        IN  IF naming = {}
            THEN ut.outs[1].err = "ErrSHA512NotFound"
            ELSE /\ ut.outs[1].err = "nil"
                 /\ \E i \in naming : ut.outs[1].hash = ToLower(ut.content[i][1])

\* C34 as stated: the five ports of one successful allocateClusterNodePorts
\* call are non-zero and mutually distinct.
C34_AsStated ==
    (ut.pc = "allocate" /\ ut.outs # <<>> /\ ut.outs[1].err = "nil") =>
        /\ \A i \in 1..Len(PortNames) : ut.outs[1].np[i] # 0
        /\ \A i, j \in 1..Len(PortNames) :
              i # j => ut.outs[1].np[i] # ut.outs[1].np[j]

\* The events by which Start and Cluster.Start acquire something.
Acquired(ev) == ev[1] \in {"mkdir", "launch"}

\* The event that begins the undo of an acquisition, and the one that ends it.
UndoBegins(ev) == IF ev[1] = "launch" THEN <<"stop", ev[2]>> ELSE <<"rmdir", ev[2]>>

UndoEnds(ev) == IF ev[1] = "launch" THEN <<"stopped", ev[2]>> ELSE <<"rmdir", ev[2]>>

\* A step of the rollback runs os.RemoveAll on directory id.
RemovesDir(id) ==
    /\ pc \in {"rollback", "c_rollback"}
    /\ Len(trace') = Len(trace) + 1
    /\ trace'[Len(trace')] = <<"rmdir", id>>

Probing == pr.pc \in {"first", "select"}

\* A step in which the prober makes a poll.
Polls == pr.pc \in {"first", "select"} /\ pr'.pc # "off" /\ pr'.polls = pr.polls + 1

\* C36: every waitForReady and waitForKeeperQuorum call returns, with success
\* or with the deadline error, and with the deadline error only once the
\* deadline of its context has been reached; no count of polls ends it; a
\* probe that is running when the deadline is reached returns the deadline
\* error.  The probes of one Cluster.Start share one context: once the start
\* timeout has elapsed every poll of the phase fails on the context, and no
\* further probe of the phase succeeds.
C36_WaitsTerminate ==
    /\ Probing ~> (pr.pc = "ret" /\ pr.result \in {"nil", DeadlineError(pr.kind)})
    /\ (Probing /\ pr.ctxDone) ~> (pr.pc = "ret" /\ pr.result = DeadlineError(pr.kind))
    /\ [](pr.pc = "ret" =>
            /\ pr.result \in {"nil", DeadlineError(pr.kind)}
            /\ pr.result = DeadlineError(pr.kind) => pr.ctxDone)
    /\ [][(pr.pc # "off" /\ pr.late /\ Polls) =>
             (pr'.last.err = "ctxDone" /\ pr'.result # "nil")]_vars
    /\ [](pr.pc \in {"first", "select", "ret"} => (pr.late <=> pr.ctxDone))

\* The quorum probe of a cluster of two replicas, made after both liveness
\* probes succeeded, polled as often as it may and returned the deadline
\* error after the shared deadline.
C36_Witness ==
    /\ pr.pc = "ret"
    /\ pr.kind = "quorum"
    /\ pr.after = minReplicas
    /\ pr.left = 0
    /\ pr.polls = MaxPolls
    /\ pr.late
    /\ pr.result = DeadlineError("quorum")

\* The callers that are inside the body of Start or Stop.
InBody == {g \in Callers : lc.fr[g].pc # "idle"}

\* C37: the lifecycle calls of several goroutines on one instance exclude
\* each other: at most one call is inside its body, and none entered while
\* another was; at most one child the instance launched is alive; at most
\* one Start has returned nil since the last Stop that ran, and a Start
\* that runs after it, with no such Stop in between, returns
\* ErrServerAlreadyStarted.
C37_LifecycleExclusive ==
    /\ [](lc.pc = "on" =>
            /\ Cardinality(InBody) <= 1
            /\ \A g \in Callers : ~lc.fr[g].over
            /\ InBody # {} => lc.mu.w
            /\ Cardinality(lc.alive) <= 1
            /\ lc.wins <= 1
            /\ (InBody = {}) => (lc.f.started <=> lc.wins = 1))
    /\ [][\A g \in Callers :
            (lc.pc = "on" /\ lc.fr[g].pc = "check" /\ lc.fr[g].op = "Start"
               /\ lc.wins = 1 /\ lc'.fr[g].pc # "check")
            => (lc'.fr[g].res = "ErrServerAlreadyStarted" /\ lc'.wins = 1
                  /\ lc'.alive = lc.alive)]_vars

\* One goroutine's Start has returned nil and its child is alive, and the
\* Start of another goroutine, which had to wait for the lock, is returning
\* ErrServerAlreadyStarted.
C37_Witness ==
    /\ lc.pc = "on"
    /\ lc.wins = 1
    /\ lc.alive # {}
    /\ \E g, h \in Callers :
          /\ g # h
          /\ lc.fr[g].op = "Start" /\ lc.fr[g].pc = "idle" /\ lc.fr[g].res = "nil"
          /\ lc.fr[h].op = "Start" /\ lc.fr[h].pc = "unlock"
          /\ lc.fr[h].res = "ErrServerAlreadyStarted"

\* The fields of the instance the state invariant is about.
StateFields(n) == <<n.started, n.cmd, n.tcpPort, n.httpPort>>

\* C38: whenever no Start or Stop call is running on a single instance,
\* started holds exactly when the process handle is set, both ports are
\* non-zero when it is started and both are zero when it is not; and every
\* step of a Start call, except the one by which it returns nil, leaves
\* the flag, the handle and the ports as they were.
C38_StateInvariant ==
    /\ []((e # NoServer /\ pc = "idle") =>
            /\ e.started <=> e.cmd # 0
            /\ e.started => (e.tcpPort # 0 /\ e.httpPort # 0)
            /\ ~e.started => (e.tcpPort = 0 /\ e.httpPort = 0))
    /\ [][(e # NoServer /\ call' = "Start" /\ ~(pc' = "idle" /\ result' = <<>>))
             => StateFields(e') = StateFields(e)]_vars

\* A Start with allocated ports succeeded, the instance was stopped, and a
\* later Start failed at the readiness probe: the instance is not started,
\* without handle and with both ports zero.
C38_Witness ==
    /\ StartFailed
    /\ result = <<"errNotReady">>
    /\ ncalls >= 3
    /\ e.config.tcpPort = 0
    /\ e.tmpDir # <<>>
    /\ StateFields(e) = <<FALSE, 0, 0, 0>>

\* The nesting rank of a lock: cluster, node, download.
Rank(m) == CASE m[1] = "c" -> 1 [] m[1] = "n" -> 2 [] m[1] = "d" -> 3

\* The locks goroutine t holds.
HeldBy(t) == {dl.th[t].held[i] : i \in 1..Len(dl.th[t].held)}

\* Goroutine t is inside Lock or RLock and cannot get the lock now.
Waiting(t) ==
    /\ dl.th[t].prog # <<>>
    /\ \/ /\ NextOp(t)[1] = "Lock"
          /\ dl.th[t].req
          /\ ~CanLock(dl.mu[NextOp(t)[2]])
       \/ /\ NextOp(t)[1] = "RLock"
          /\ ~(CanRLock(dl.mu[NextOp(t)[2]]) /\ dl.mu[NextOp(t)[2]].q = {})

\* The goroutines t waits for: the holders of the lock, and for a reader the
\* pending writers.
WaitsFor(t) ==
    {u \in Callers : NextOp(t)[2] \in HeldBy(u)}
      \cup (IF NextOp(t)[1] = "RLock" THEN dl.mu[NextOp(t)[2]].q ELSE {})

\* C39: no set of goroutines is deadlocked (each waiting for a lock, and for
\* nobody outside the set); a goroutine takes locks only in the order
\* cluster, node, download, and asks for no lock while it holds the download
\* lock.
C39_NoDeadlock ==
    dl.pc = "on" =>
        /\ \A S \in SUBSET Callers :
              S # {} => \E t \in S : ~Waiting(t) \/ ~(WaitsFor(t) \subseteq S)
        /\ \A t \in Callers :
              /\ \A i, j \in 1..Len(dl.th[t].held) :
                    i < j => Rank(dl.th[t].held[i]) < Rank(dl.th[t].held[j])
              /\ (dl.th[t].prog # <<>> /\ NextOp(t)[1] \in {"Lock", "RLock"}) =>
                    /\ \A m \in HeldBy(t) : Rank(m) < Rank(NextOp(t)[2])
                    /\ DownloadMu \notin HeldBy(t)

\* Cluster.Stop waits for the lock of node 0 inside the cluster lock while
\* another goroutine holds the lock of node 0 and can go on.
C39_Witness ==
    /\ dl.pc = "on"
    /\ \E t, u \in Callers :
          /\ t # u
          /\ HeldBy(t) = {ClusterMu}
          /\ Waiting(t)
          /\ NextOp(t) = <<"Lock", NodeMu(0)>>
          /\ HeldBy(u) = {NodeMu(0)}
          /\ ~Waiting(u)

(***************************************************************************)
(* C40: a failed acquisition can be tried again.                           *)
(***************************************************************************)

\* `what' is in the log `lg'.
Logged(lg, what) == \E i \in 1..Len(lg) : lg[i] = what

\* A call with this record missed the cache: it looked for the cache entry
\* twice, the second time under the download lock, and did not find it.
MissedCache(lg) ==
    /\ Len(lg) >= 3
    /\ SubSeq(lg, 1, 3) = <<<<"stat", "final">>, <<"lock">>, <<"stat", "final">>>>
    /\ ~(Len(lg) = 4 /\ lg[4] = <<"unlock">>)

\* The errors of a cache miss that come before any request: the platform
\* has no asset, or the cache directory cannot be made.
BeforeRequest == {"ErrUnsupportedPlatform", "errCreateCacheDir"}

\* The call has returned an error after missing the cache.
FailedOnMiss == aq.pc = "ret" /\ aq.err # "nil" /\ MissedCache(aq.log)

\* The call comes after one that failed on a cache miss, and has returned,
\* having got as far as looking for the cache entry.
RetriedAfterFailure ==
    /\ aq.pc = "ret"
    /\ aq.attempt > 1
    /\ aq.before.err # "nil"
    /\ MissedCache(aq.before.log)
    /\ aq.err # "errCacheDir"

\* C40: when ensureBinary fails on a cache miss, the download lock is
\* released and no file is at the final cache path when it returns; and a
\* later call with the same Config starts over: it looks for the cache entry,
\* does not find it, takes the download lock and looks again, and unless
\* another call has installed the entry meanwhile it resolves the platform
\* and requests the asset anew (where the platform has an asset and the cache
\* directory can be made).  It returns a path only of a whole binary.
C40_FailedAttemptRetryable ==
    /\ FailedOnMiss =>
          /\ ~aq.locked
          /\ aq.log[Len(aq.log)] = <<"unlock">>
          /\ "final" \notin aq.there
          /\ aq.path = ""
    /\ RetriedAfterFailure =>
          /\ ~aq.before.locked
          /\ "final" \notin aq.before.there
          /\ Len(aq.log) >= 3
          /\ SubSeq(aq.log, 1, 3) =
                <<<<"stat", "final">>, <<"lock">>, <<"stat", "final">>>>
          /\ (MissedCache(aq.log) /\ aq.err \notin BeforeRequest) =>
                Logged(aq.log, <<"net", "asset">>)
          /\ aq.err = "nil" =>
                (aq.path = "final" /\ aq.data["final"] = Complete)
          /\ ~aq.locked

\* A call failed after the archive was downloaded and its binary written
\* (the rename failed); the call made after it downloaded the archive again
\* and installed the binary.
C40_Witness ==
    /\ RetriedAfterFailure
    /\ aq.before.err = "errRename"
    /\ aq.err = "nil"
    /\ Logged(aq.log, <<"net", "asset">>)
    /\ Logged(aq.log, <<"rename", "tmp", "final">>)
    /\ aq.there = {"final"}


====
